---- MODULE Spec2Model ----
(***************************************************************************)
(* InfinitycTac: the game-rules engine (ClassicGameLogic,                  *)
(* UltimateGameLogic, GameUtils) and the offline driver (Index) as a       *)
(* state machine.                                                          *)
(*                                                                         *)
(* Representation of the TypeScript values:                                *)
(*   - a grid string[][] is a function [0..size-1 -> [0..size-1 -> Sym]],  *)
(*     so grid[row][col] reads as in the source; '' is the empty string;   *)
(*   - a null winner is the string Null; a null winningLine is the empty   *)
(*     sequence (a non-null line always has winLength >= 3 entries);       *)
(*   - a null targetBoard is NoBoard (-1), a number outside 0..8;          *)
(*   - a null lastMove is the empty sequence, a move is <<row, col>>.      *)
(***************************************************************************)
EXTENDS Integers, Sequences, FiniteSets, TLC

\* ------------------------------------------------------------------ bounds

\* Largest side of a rules board (the menu allows 3..10).
MaxGridSize == 4

\* Largest side of an offline classic game.
MaxOfflineGridSize == 3

\* Largest number of marks written on a rules board of side > 3
\* (a board of side 3 is filled completely).
MaxMarks == 3

\* Largest number of accepted moves of an offline classic game on a grid
\* larger than 3 x 3 (a 3 x 3 game is played to its end).
MaxClassicMoves == 4

\* Largest number of accepted moves of an offline Ultimate game.
MaxUltimateMoves == 6

\* Largest number of accepted moves of an offline Ultimate game played in
\* and around the centre sub-board.
MaxPlayMoves == 10

\* An offline Ultimate move attempt is drawn from the cells (row, col) with
\* |row - col| <= MaxOffDiag.
MaxOffDiag == 1

\* Largest number of sub-boards of an Ultimate board that take a position
\* other than the one the board starts from.
MaxPainted == 1

\* Largest grid_size of a classic online room.
MaxRoomGridSize == 4

\* Largest number of joinRoom calls made on a room.
MaxJoins == 3

\* Largest match_id a resetGame call writes.
MaxMatchId == 2

\* Change events on their way to the subscribed client.
MaxFeed == 2

\* Rooms created one after another for one client.
MaxRooms == 2

\* ---------------------------------------------------------------- constants

Null == "null"

NoBoard == -1

MinGridSize == 3

\* grid_size and win_length of an ultimate room: null
NoSize == 0

Symbols == {"X", "O"}

\* ------------------------------------------------------------ GameUtils

createEmptyGrid(size) == [r \in 0..(size - 1) |-> [c \in 0..(size - 1) |-> ""]]

SetCell(grid, row, col, symbol) ==
    [grid EXCEPT ![row] = [grid[row] EXCEPT ![col] = symbol]]

GridSize(grid) == Cardinality(DOMAIN grid)

CellsOf(grid) == (DOMAIN grid) \X (DOMAIN grid)

getMoveCount(grid) ==
    Cardinality({p \in CellsOf(grid) : grid[p[1]][p[2]] # ""})

\* ------------------------------------------------------ ClassicGameLogic

\* The cells pushed to "line" by the inner loop "for i in 0..winLength-1"
\* from a start cell (row, col) in direction (dr, dc).
LineFrom(row, col, dr, dc, winLength) ==
    [i \in 1..winLength |-> <<row + (i - 1) * dr, col + (i - 1) * dc>>]

\* IsWinFrom with the inner loop one cell short ("i < winLength - 1").
IsWinFromShort(grid, row, col, dr, dc, winLength) ==
    LET symbol == grid[row][col]
    IN  /\ symbol # ""
        /\ \A i \in 0..(winLength - 2) : grid[row + i * dr][col + i * dc] = symbol

\* The body of one scan step: the start cell is non-empty ("symbol &&
\* symbol !== ''") and every cell of the line equals it (isWin stays true).
IsWinFrom(grid, row, col, dr, dc, winLength) ==
    LET symbol == grid[row][col]
    IN  /\ symbol # ""
        /\ \A i \in 0..(winLength - 1) : grid[row + i * dr][col + i * dc] = symbol

\* The value returned from inside a loop at start cell (row, col).
WinFrom(grid, row, col, dr, dc, winLength) ==
    [winner |-> grid[row][col], winningLine |-> LineFrom(row, col, dr, dc, winLength)]

\* The first element of a set of loop positions, in loop order.
FirstOf(hits) == CHOOSE k \in hits : \A j \in hits : k <= j

\* Each of the four loop nests visits its start cells in the order of a
\* position k = outer * n + inner, n the number of inner iterations.
\* Rows: for row in 0..size-1, for col in 0..size-winLength.
RowHits(grid, winLength) ==
    LET size == GridSize(grid)
        n    == size - winLength + 1
    IN  {k \in 0..(size * n - 1) :
            IsWinFrom(grid, k \div n, k % n, 0, 1, winLength)}

\* Columns: for col in 0..size-1, for row in 0..size-winLength.
ColHits(grid, winLength) ==
    LET size == GridSize(grid)
        n    == size - winLength + 1
    IN  {k \in 0..(size * n - 1) :
            IsWinFrom(grid, k % n, k \div n, 1, 0, winLength)}

\* Diagonals (top-left to bottom-right): for row in 0..size-winLength,
\* for col in 0..size-winLength.
DiagHits(grid, winLength) ==
    LET size == GridSize(grid)
        n    == size - winLength + 1
    IN  {k \in 0..(n * n - 1) :
            IsWinFrom(grid, k \div n, k % n, 1, 1, winLength)}

\* AntiDiagHits with the column loop starting one late ("col = winLength").
AntiDiagHitsStartLate(grid, winLength) ==
    LET size == GridSize(grid)
        n    == size - winLength + 1
    IN  {k \in 0..(n * n - 1) :
            /\ k % n > 0
            /\ IsWinFrom(grid, k \div n, (winLength - 1) + (k % n), 1, -1, winLength)}

\* Diagonals (top-right to bottom-left): for row in 0..size-winLength,
\* for col in winLength-1..size-1.
AntiDiagHits(grid, winLength) ==
    LET size == GridSize(grid)
        n    == size - winLength + 1
    IN  {k \in 0..(n * n - 1) :
            IsWinFrom(grid, k \div n, (winLength - 1) + (k % n), 1, -1, winLength)}

NoWin == [winner |-> Null, winningLine |-> <<>>]

\* checkWin with the column loops placed before the row loops.
checkWinColsFirst(grid, winLength) ==
    LET n     == GridSize(grid) - winLength + 1
        rows  == RowHits(grid, winLength)
        cols  == ColHits(grid, winLength)
        diags == DiagHits(grid, winLength)
        antis == AntiDiagHits(grid, winLength)
    IN  IF cols # {}
        THEN LET k == FirstOf(cols)
             IN  WinFrom(grid, k % n, k \div n, 1, 0, winLength)
        ELSE IF rows # {}
        THEN LET k == FirstOf(rows)
             IN  WinFrom(grid, k \div n, k % n, 0, 1, winLength)
        ELSE IF diags # {}
        THEN LET k == FirstOf(diags)
             IN  WinFrom(grid, k \div n, k % n, 1, 1, winLength)
        ELSE IF antis # {}
        THEN LET k == FirstOf(antis)
             IN  WinFrom(grid, k \div n, (winLength - 1) + (k % n), 1, -1, winLength)
        ELSE NoWin

checkWin(grid, winLength) ==
    LET n     == GridSize(grid) - winLength + 1
        rows  == RowHits(grid, winLength)
        cols  == ColHits(grid, winLength)
        diags == DiagHits(grid, winLength)
        antis == AntiDiagHits(grid, winLength)
    IN  IF rows # {}
        THEN LET k == FirstOf(rows)
             IN  WinFrom(grid, k \div n, k % n, 0, 1, winLength)
        ELSE IF cols # {}
        THEN LET k == FirstOf(cols)
             IN  WinFrom(grid, k % n, k \div n, 1, 0, winLength)
        ELSE IF diags # {}
        THEN LET k == FirstOf(diags)
             IN  WinFrom(grid, k \div n, k % n, 1, 1, winLength)
        ELSE IF antis # {}
        THEN LET k == FirstOf(antis)
             IN  WinFrom(grid, k \div n, (winLength - 1) + (k % n), 1, -1, winLength)
        ELSE NoWin

\* checkDraw with "every" applied to the first row only.
checkDrawFirstRow(grid) == \A col \in DOMAIN grid : grid[0][col] # ""

checkDraw(grid) == \A p \in CellsOf(grid) : grid[p[1]][p[2]] # ""

getCurrentPlayer(grid) == IF getMoveCount(grid) % 2 = 0 THEN "X" ELSE "O"

\* grid[row] && grid[row][col] === '': an index outside the array reads
\* undefined, which is neither truthy nor equal to ''.
isValidMove(grid, row, col) ==
    /\ row \in DOMAIN grid
    /\ col \in DOMAIN grid[row]
    /\ grid[row][col] = ""

\* ----------------------------------------------------- UltimateGameLogic

getLocalBoardIndex(row, col) == (row \div 3) * 3 + (col \div 3)

getLocalCellCoords(row, col) == [localRow |-> row % 3, localCol |-> col % 3]

getLocalBoard(grid, boardIndex) ==
    LET startRow == (boardIndex \div 3) * 3
        startCol == (boardIndex % 3) * 3
    IN  [row \in 0..2 |-> [col \in 0..2 |-> grid[startRow + row][startCol + col]]]

isLocalBoardFull(grid, boardIndex) ==
    LET localBoard == getLocalBoard(grid, boardIndex)
    IN  \A row \in 0..2 : \A col \in 0..2 : localBoard[row][col] # ""

checkLocalWinner(grid, boardIndex) ==
    checkWin(getLocalBoard(grid, boardIndex), 3).winner

getLocalWinners(grid) == [index \in 0..8 |-> checkLocalWinner(grid, index)]

\* BoardWinningLine that leaves the meta-grid's [row, col] pairs as they are.
BoardWinningLineRaw(winningLine) == winningLine

\* Each [row, col] of the meta-grid's line becomes the one-element array
\* [row * 3 + col].
BoardWinningLine(winningLine) ==
    [i \in 1..Len(winningLine) |-> <<winningLine[i][1] * 3 + winningLine[i][2]>>]

checkGlobalWinner(localWinners) ==
    LET localGrid == [row \in 0..2 |-> [col \in 0..2 |->
                        IF localWinners[row * 3 + col] = Null
                        THEN ""
                        ELSE localWinners[row * 3 + col]]]
        result == checkWin(localGrid, 3)
    IN  IF result.winningLine # <<>>
        THEN [winner |-> result.winner,
              winningLine |-> BoardWinningLine(result.winningLine)]
        ELSE result

\* getTargetBoard without the isLocalBoardFull test.
getTargetBoardIgnoringFull(lastMoveRow, lastMoveCol, grid, localWinners) ==
    LET coords == getLocalCellCoords(lastMoveRow, lastMoveCol)
        targetBoardIndex == coords.localRow * 3 + coords.localCol
    IN  IF localWinners[targetBoardIndex] # Null
        THEN NoBoard
        ELSE targetBoardIndex

\* getTargetBoard without its "won or full" test.
getTargetBoardOfLastMove(lastMoveRow, lastMoveCol, grid, localWinners) ==
    LET coords == getLocalCellCoords(lastMoveRow, lastMoveCol)
    IN  coords.localRow * 3 + coords.localCol

getTargetBoard(lastMoveRow, lastMoveCol, grid, localWinners) ==
    LET coords == getLocalCellCoords(lastMoveRow, lastMoveCol)
        targetBoardIndex == coords.localRow * 3 + coords.localCol
    IN  IF \/ localWinners[targetBoardIndex] # Null
           \/ isLocalBoardFull(grid, targetBoardIndex)
        THEN NoBoard
        ELSE targetBoardIndex

\* isValidMove testing "!targetBoard" in place of "targetBoard === null".
UltimateIsValidMoveFalsyTarget(grid, row, col, targetBoard) ==
    IF ~(row \in DOMAIN grid /\ col \in DOMAIN grid[row] /\ grid[row][col] = "")
    THEN FALSE
    ELSE IF targetBoard = NoBoard \/ targetBoard = 0
    THEN TRUE
    ELSE getLocalBoardIndex(row, col) = targetBoard

\* isValidMove that lets a free move only into a sub-board with no winner.
UltimateIsValidMoveOpenOnly(grid, row, col, targetBoard) ==
    IF ~(row \in DOMAIN grid /\ col \in DOMAIN grid[row] /\ grid[row][col] = "")
    THEN FALSE
    ELSE IF targetBoard = NoBoard
    THEN checkLocalWinner(grid, getLocalBoardIndex(row, col)) = Null
    ELSE getLocalBoardIndex(row, col) = targetBoard

UltimateIsValidMove(grid, row, col, targetBoard) ==
    IF ~(row \in DOMAIN grid /\ col \in DOMAIN grid[row] /\ grid[row][col] = "")
    THEN FALSE
    ELSE IF targetBoard = NoBoard
    THEN TRUE
    ELSE getLocalBoardIndex(row, col) = targetBoard

\* checkDraw that calls a draw once every sub-board is won or full.
UltimateCheckDrawSettled(grid, localWinners) ==
    IF checkGlobalWinner(localWinners).winner # Null
    THEN FALSE
    ELSE \A index \in 0..8 :
            localWinners[index] # Null \/ isLocalBoardFull(grid, index)

UltimateCheckDraw(grid, localWinners) ==
    IF checkGlobalWinner(localWinners).winner # Null
    THEN FALSE
    ELSE \A p \in CellsOf(grid) : grid[p[1]][p[2]] # ""

\* ------------------------------------------------------------------ state

VARIABLES
    \* rules board: a classic grid, its win length, and the values GameBoard
    \* derives from it
    board, boardWinLength, classicWin, classicDraw,
    \* meta board: nine local winners and the global result
    metaWinners, metaResult,
    \* Ultimate board: a 9 x 9 grid, its derived values, a probed cell
    uGrid, uPainted, uLocalWinners, uGlobal, uDraw, uProbe, uTarget, uValid,
    \* Index: the view and the offline game
    currentView, offlineGame,
    \* online room: the stored row, the service calls between their read and
    \* their write (or returned), and the number of client ids generated
    room, calls, clientIds,
    \* what the last createRoom call came to, and the change events of the
    \* row on their way to the subscribed client
    created, feed,
    \* the online client: Index's onlineRoom, and GameBoard's currentRoom,
    \* inputBlocked and currentPlayer, and the handleCellClick waiting for
    \* its makeMove
    onlineRoom, currentRoom, inputBlocked, click, currentPlayer

rulesVars == <<board, boardWinLength, classicWin, classicDraw>>

metaVars == <<metaWinners, metaResult>>

ultimateVars ==
    <<uGrid, uPainted, uLocalWinners, uGlobal, uDraw, uProbe, uTarget, uValid>>

offlineVars == <<currentView, offlineGame>>

roomVars == <<room, calls, clientIds, created, feed>>

boardVars == <<onlineRoom, currentRoom, inputBlocked, click, currentPlayer>>

vars == <<rulesVars, metaVars, ultimateVars, offlineVars, roomVars, boardVars>>

\* ---------------------------------------------------------- rules board
\* A board that marks are written to cell by cell with no legality check
\* (as GameService.makeMove writes them), and the values GameBoard derives
\* from it on every render.

MarkLimit(grid) ==
    IF GridSize(grid) = MinGridSize THEN MinGridSize * MinGridSize ELSE MaxMarks

WriteMark(row, col, symbol) ==
    /\ board[row][col] = ""
    /\ board' = SetCell(board, row, col, symbol)
    /\ classicWin' = checkWin(board', boardWinLength)
    /\ classicDraw' = (classicWin'.winner = Null /\ checkDraw(board'))
    /\ UNCHANGED <<boardWinLength, metaVars, ultimateVars, offlineVars, roomVars, boardVars>>

RulesNext ==
    /\ getMoveCount(board) < MarkLimit(board)
    /\ \E row \in DOMAIN board, col \in DOMAIN board, symbol \in Symbols :
        WriteMark(row, col, symbol)

\* ----------------------------------------------------------- meta board
\* The vector of nine local winners, filled in one sub-board at a time, and
\* the global result derived from it.

\* Array(9).fill(null)
NoLocalWinners == [index \in 0..8 |-> Null]

WinSubBoard(index, symbol) ==
    /\ metaWinners[index] = Null
    /\ metaWinners' = [metaWinners EXCEPT ![index] = symbol]
    /\ metaResult' = checkGlobalWinner(metaWinners')
    /\ UNCHANGED <<rulesVars, ultimateVars, offlineVars, roomVars, boardVars>>

MetaNext == \E index \in 0..8, symbol \in Symbols : WinSubBoard(index, symbol)

\* ------------------------------------------------------- Ultimate board
\* A 9 x 9 grid put together from 3 x 3 sub-board positions, the values
\* derived from it, and one cell probed as a last move and as a next move.

\* A 3 x 3 position from its rows.
Position(rows) == [row \in 0..2 |-> [col \in 0..2 |-> rows[row + 1][col + 1]]]

PosEmpty  == Position(<< <<"", "", "">>,    <<"", "", "">>,    <<"", "", "">> >>)
PosOpen   == Position(<< <<"X", "O", "">>,  <<"", "", "">>,    <<"", "", "X">> >>)
PosXWon   == Position(<< <<"X", "O", "">>,  <<"", "X", "O">>,  <<"", "", "X">> >>)
PosOWon   == Position(<< <<"X", "", "O">>,  <<"X", "", "O">>,  <<"", "X", "O">> >>)
PosDrawn  == Position(<< <<"X", "O", "X">>, <<"X", "O", "O">>, <<"O", "X", "X">> >>)
PosXFull  == Position(<< <<"X", "X", "X">>, <<"O", "O", "X">>, <<"X", "O", "O">> >>)

Positions == {PosEmpty, PosOpen, PosXWon, PosOWon, PosDrawn, PosXFull}

\* The grid with sub-board boardIndex replaced by a position.
Paint(grid, boardIndex, position) ==
    [row \in 0..8 |-> [col \in 0..8 |->
        IF getLocalBoardIndex(row, col) = boardIndex
        THEN position[row % 3][col % 3]
        ELSE grid[row][col]]]

\* targetBoard: null or a sub-board index.
Targets == {NoBoard} \cup (0..8)

\* Sub-board boardIndex takes another position; the derived values follow
\* as GameBoard and handleOfflineMove derive them.
PaintSubBoard(boardIndex, position) ==
    /\ uProbe = <<>>
    /\ uPainted < MaxPainted
    /\ uGrid' = Paint(uGrid, boardIndex, position)
    /\ uGrid' # uGrid
    /\ uPainted' = uPainted + 1
    /\ uLocalWinners' = getLocalWinners(uGrid')
    /\ uGlobal' = checkGlobalWinner(uLocalWinners')
    /\ uDraw' = UltimateCheckDraw(uGrid', uLocalWinners')
    /\ UNCHANGED <<uProbe, uTarget, uValid, rulesVars, metaVars, offlineVars, roomVars, boardVars>>

\* Cell (row, col) as the last move (getTargetBoard) and as the next move
\* under each target board (isValidMove).
ProbeCell(row, col) ==
    /\ uProbe = <<>>
    /\ uProbe' = <<row, col>>
    /\ uTarget' = getTargetBoard(row, col, uGrid, uLocalWinners)
    /\ uValid' = [targetBoard \in Targets |->
                    UltimateIsValidMove(uGrid, row, col, targetBoard)]
    /\ UNCHANGED <<uGrid, uPainted, uLocalWinners, uGlobal, uDraw>>
    /\ UNCHANGED <<rulesVars, metaVars, offlineVars, roomVars, boardVars>>

UltimateNext ==
    \/ \E boardIndex \in 0..8, position \in Positions :
          PaintSubBoard(boardIndex, position)
    \/ \E row \in 0..8, col \in 0..8 : ProbeCell(row, col)

\* ------------------------------------------------------- offline driver
\* Index: the view, the offline game held in React state, and the handlers
\* that replace it.

\* offlineGame === null
NoGame == [mode |-> "none"]

handleStartOfflineGame(mode, gridSize, winLength) ==
    /\ currentView = "menu"
    /\ offlineGame' =
          [mode          |-> mode,
           gridSize      |-> gridSize,
           winLength     |-> winLength,
           grid          |-> createEmptyGrid(IF mode = "ultimate" THEN 9 ELSE gridSize),
           currentSymbol |-> "X",
           winner        |-> Null,
           winningLine   |-> <<>>,
           isGameOver    |-> FALSE,
           moveCount     |-> 0,
           lastMove      |-> <<>>,
           targetBoard   |-> NoBoard,
           localWinners  |-> NoLocalWinners]
    /\ currentView' = "offline-game"
    /\ UNCHANGED <<rulesVars, metaVars, ultimateVars, roomVars, boardVars>>

\* offlineGame.targetBoard || null: 0 is falsy, as null and undefined are.
TargetOrNull(targetBoard) ==
    IF targetBoard = 0 \/ targetBoard = NoBoard THEN NoBoard ELSE targetBoard

OfflineIsValid(game, row, col) ==
    IF game.mode = "classic"
    THEN isValidMove(game.grid, row, col)
    ELSE UltimateIsValidMove(game.grid, row, col, TargetOrNull(game.targetBoard))

\* The state set by an accepted move.
OfflineAfterMove(game, row, col) ==
    LET newGrid         == SetCell(game.grid, row, col, game.currentSymbol)
        newMoveCount    == game.moveCount + 1
        classicResult   == checkWin(newGrid, game.winLength)
        newLocalWinners == IF game.mode = "ultimate"
                           THEN getLocalWinners(newGrid)
                           ELSE game.localWinners
        globalResult    == checkGlobalWinner(newLocalWinners)
        result          == IF game.mode = "classic" THEN classicResult ELSE globalResult
        winner          == result.winner
        winningLine     == result.winningLine
        isDraw          == IF game.mode = "classic"
                           THEN winner = Null /\ checkDraw(newGrid)
                           ELSE winner = Null /\ UltimateCheckDraw(newGrid, newLocalWinners)
        newTargetBoard  == IF game.mode = "ultimate"
                           THEN getTargetBoard(row, col, newGrid, newLocalWinners)
                           ELSE game.targetBoard
        nextSymbol      == IF game.currentSymbol = "X" THEN "O" ELSE "X"
    IN  [game EXCEPT
           !.grid          = newGrid,
           !.currentSymbol = nextSymbol,
           !.winner        = IF winner # Null THEN winner
                             ELSE IF isDraw THEN "draw" ELSE Null,
           !.winningLine   = winningLine,
           !.isGameOver    = (winner # Null \/ isDraw),
           !.moveCount     = newMoveCount,
           !.lastMove      = <<row, col>>,
           !.targetBoard   = newTargetBoard,
           !.localWinners  = newLocalWinners]

\* handleOfflineMove without "currentSymbol: nextSymbol".
handleOfflineMoveSameSymbol(row, col) ==
    /\ currentView = "offline-game"
    /\ offlineGame' =
          IF offlineGame.isGameOver \/ ~OfflineIsValid(offlineGame, row, col)
          THEN offlineGame
          ELSE [OfflineAfterMove(offlineGame, row, col) EXCEPT
                  !.currentSymbol = offlineGame.currentSymbol]
    /\ UNCHANGED <<currentView, rulesVars, metaVars, ultimateVars, roomVars, boardVars>>

\* handleOfflineMove without "|| offlineGame.isGameOver" in its first return.
handleOfflineMoveWhenOver(row, col) ==
    /\ currentView = "offline-game"
    /\ offlineGame' =
          IF ~OfflineIsValid(offlineGame, row, col)
          THEN offlineGame
          ELSE OfflineAfterMove(offlineGame, row, col)
    /\ UNCHANGED <<currentView, rulesVars, metaVars, ultimateVars, roomVars, boardVars>>

handleOfflineMove(row, col) ==
    /\ currentView = "offline-game"
    /\ offlineGame' =
          IF offlineGame.isGameOver \/ ~OfflineIsValid(offlineGame, row, col)
          THEN offlineGame
          ELSE OfflineAfterMove(offlineGame, row, col)
    /\ UNCHANGED <<currentView, rulesVars, metaVars, ultimateVars, roomVars, boardVars>>

\* handleOfflineRestart without "currentSymbol: 'X'".
handleOfflineRestartKeepSymbol ==
    /\ currentView = "offline-game"
    /\ offlineGame' =
          [offlineGame EXCEPT
             !.grid          = createEmptyGrid(IF offlineGame.mode = "ultimate"
                                               THEN 9 ELSE offlineGame.gridSize),
             !.winner        = Null,
             !.winningLine   = <<>>,
             !.isGameOver    = FALSE,
             !.moveCount     = 0,
             !.lastMove      = <<>>,
             !.targetBoard   = NoBoard,
             !.localWinners  = NoLocalWinners]
    /\ UNCHANGED <<currentView, rulesVars, metaVars, ultimateVars, roomVars, boardVars>>

\* handleOfflineRestart without "targetBoard: null".
handleOfflineRestartKeepTarget ==
    /\ currentView = "offline-game"
    /\ offlineGame' =
          [offlineGame EXCEPT
             !.grid          = createEmptyGrid(IF offlineGame.mode = "ultimate"
                                               THEN 9 ELSE offlineGame.gridSize),
             !.currentSymbol = "X",
             !.winner        = Null,
             !.winningLine   = <<>>,
             !.isGameOver    = FALSE,
             !.moveCount     = 0,
             !.lastMove      = <<>>,
             !.localWinners  = NoLocalWinners]
    /\ UNCHANGED <<currentView, rulesVars, metaVars, ultimateVars, roomVars, boardVars>>

handleOfflineRestart ==
    /\ currentView = "offline-game"
    /\ offlineGame' =
          [offlineGame EXCEPT
             !.grid          = createEmptyGrid(IF offlineGame.mode = "ultimate"
                                               THEN 9 ELSE offlineGame.gridSize),
             !.currentSymbol = "X",
             !.winner        = Null,
             !.winningLine   = <<>>,
             !.isGameOver    = FALSE,
             !.moveCount     = 0,
             !.lastMove      = <<>>,
             !.targetBoard   = NoBoard,
             !.localWinners  = NoLocalWinners]
    /\ UNCHANGED <<currentView, rulesVars, metaVars, ultimateVars, roomVars, boardVars>>

returnToMenu ==
    /\ currentView = "offline-game"
    /\ currentView' = "menu"
    /\ offlineGame' = NoGame
    /\ UNCHANGED <<rulesVars, metaVars, ultimateVars, roomVars, boardVars>>

\* The cells a move attempt is drawn from: every cell of a classic grid and
\* one index outside it on each side; in Ultimate the cells within
\* MaxOffDiag of the main diagonal, and the same indices outside the grid.
MoveInputs(game) ==
    LET size == GridSize(game.grid)
    IN  IF game.mode = "classic"
        THEN (-1..size) \X (-1..size)
        ELSE {p \in (0..8) \X (0..8) : p[1] - p[2] \in (-MaxOffDiag)..MaxOffDiag}
                \cup {<<-1, 0>>, <<0, 9>>}

\* A 3 x 3 classic game is explored to its end, a larger one up to
\* MaxClassicMoves accepted moves, an Ultimate one up to MaxUltimateMoves.
MoveLimit(game) ==
    IF game.mode = "ultimate"
    THEN MaxUltimateMoves
    ELSE IF game.gridSize = MinGridSize
    THEN MinGridSize * MinGridSize
    ELSE MaxClassicMoves

Next ==
    \/ \E gridSize \in MinGridSize..MaxOfflineGridSize,
             winLength \in MinGridSize..MaxOfflineGridSize :
          /\ winLength <= gridSize
          /\ handleStartOfflineGame("classic", gridSize, winLength)
    \/ handleStartOfflineGame("ultimate", MinGridSize, MinGridSize)
    \/ /\ currentView = "offline-game"
       /\ offlineGame.moveCount < MoveLimit(offlineGame)
       /\ \E p \in MoveInputs(offlineGame) : handleOfflineMove(p[1], p[2])
    \/ handleOfflineRestart
    \/ returnToMenu

\* The cells of the centre sub-board and the centre cell of every other
\* sub-board: a move at a centre cell sends the next player to the centre
\* sub-board.
PlayCells ==
    ((3..5) \X (3..5)) \cup ({1, 4, 7} \X {1, 4, 7})

\* An offline Ultimate game played on PlayCells, up to MaxPlayMoves
\* accepted moves, and restarted.
PlayNext ==
    \/ handleStartOfflineGame("ultimate", MinGridSize, MinGridSize)
    \/ /\ currentView = "offline-game"
       /\ offlineGame.moveCount < MaxPlayMoves
       /\ \E p \in PlayCells : handleOfflineMove(p[1], p[2])
    \/ /\ currentView = "offline-game"
       /\ offlineGame.moveCount > 0
       /\ handleOfflineRestart

\* ---------------------------------------------------------- online room
\* GameService: one row of the rooms table and the calls made on it.  Every
\* call but createRoom first selects the row and later updates the columns
\* it names; other calls' reads and writes may come between the two.  A
\* call is kept with what it read and, once returned, with what it gave
\* back.

\* The clients whose calls may overlap: the two players of the room.
Callers == {"c1", "c2"}

\* currentPlayer.symbol of each: GameBoard passes it to makeMove and to
\* setRestartVote.
SymbolOf == [c \in Callers |-> IF c = "c1" THEN "X" ELSE "O"]

\* No row with the room code.
NoRoom == [room_code |-> ""]

\* restart_votes: {}
NoVotes == [symbol \in {} |-> TRUE]

Idle == [phase |-> "idle", op |-> "none"]

\* No createRoom call has been made.
NoCreation == [phase |-> "none"]

NoCalls == [c \in Callers |-> Idle]

\* JSON.stringify of a grid: the text of an array of arrays, kept as a
\* sequence of sequences.
JSONStringify(grid) ==
    [i \in 1..Cardinality(DOMAIN grid) |->
        [j \in 1..Cardinality(DOMAIN grid[i - 1]) |-> grid[i - 1][j - 1]]]

\* JSON.parse reading the inner index as the row.
JSONParseTransposed(text) ==
    [row \in 0..(Len(text) - 1) |->
        [col \in 0..(Len(text[row + 1]) - 1) |-> text[col + 1][row + 1]]]

\* JSON.parse of such a text.
JSONParse(text) ==
    [row \in 0..(Len(text) - 1) |->
        [col \in 0..(Len(text[row + 1]) - 1) |-> text[row + 1][col + 1]]]

\* The grid column holds a one-element array with the grid's JSON text.
parseGrid(gridData) ==
    IF Len(gridData) > 0 THEN JSONParse(gridData[1]) ELSE <<>>

\* gridSize || 3
SizeOr3(gridSize) == IF gridSize = NoSize THEN MinGridSize ELSE gridSize

ServiceCreateEmptyGrid(mode, gridSize) ==
    LET size == IF mode = "ultimate" THEN 9 ELSE SizeOr3(gridSize)
    IN  <<JSONStringify(createEmptyGrid(size))>>

\* A Player (its name is an input that no call reads).
Player(status, symbol, client_id) ==
    [status |-> status, symbol |-> symbol, client_id |-> client_id]

\* currentPlayer === null
NoPlayer == [status |-> "null", symbol |-> "null", client_id |-> 0]

\* localStorage.getItem(...) || '' when nothing is stored for the room code.
NoClientId == 0

\* players.find(p => p.client_id === storedClientId) || null
FindPlayer(players, storedClientId) ==
    LET found == {i \in 1..Len(players) : players[i].client_id = storedClientId}
    IN  IF found = {} THEN NoPlayer ELSE players[FirstOf(found)]

\* const maxAttempts = 10
maxAttempts == 10

\* The codes generateRoomCode gives here, and those of them that other rows
\* of the table hold.
RoomCodes == {"00000", "A1B2C"}

OtherRooms == {"00000"}

\* select room_code ... eq(room_code) ... maybeSingle(): a row has the code.
Existing(roomCode) ==
    roomCode \in OtherRooms \/ (room # NoRoom /\ room.room_code = roomCode)

\* The while loop with "attempts < maxAttempts - 1" for its test.
AttemptsMadeOneLess(codes) ==
    LET free == {i \in 1..(maxAttempts - 1) : ~Existing(codes[i])}
    IN  IF free = {} THEN maxAttempts ELSE FirstOf(free) - 1

\* The while loop on the codes generated in turn: attempts when it ends, and
\* the lookups it made.
AttemptsMade(codes) ==
    LET free == {i \in 1..maxAttempts : ~Existing(codes[i])}
    IN  IF free = {} THEN maxAttempts ELSE FirstOf(free) - 1

Lookups(codes) ==
    IF AttemptsMade(codes) = maxAttempts THEN maxAttempts ELSE AttemptsMade(codes) + 1

\* grid_size INT NULL CHECK (grid_size >= 3 AND grid_size <= 10)
MaxStoredGridSize == 10

\* The CHECK constraints of the grid_size and win_length columns.
ColumnChecks(newRow) ==
    /\ newRow.grid_size = NoSize \/ newRow.grid_size \in MinGridSize..MaxStoredGridSize
    /\ newRow.win_length = NoSize \/ newRow.win_length >= MinGridSize

\* The trigger function without "NEW.win_length > NEW.grid_size".
validate_classic_settings_null_only(newRow) ==
    ~(newRow.mode = "classic" /\ (newRow.grid_size = NoSize \/ newRow.win_length = NoSize))

\* The trigger function on the row NEW: TRUE when it returns it, FALSE when
\* it raises.
validate_classic_settings(newRow) ==
    ~(newRow.mode = "classic" /\ (\/ newRow.grid_size = NoSize
                                   \/ newRow.win_length = NoSize
                                   \/ newRow.win_length > newRow.grid_size))

\* The store takes the row of an insert or update.
StoreAccepts(newRow) == ColumnChecks(newRow) /\ validate_classic_settings(newRow)

\* The row as the client holds it: { ...data, grid: parseGrid(data.grid) }.
Deserialize(row) == [row EXCEPT !.grid = parseGrid(row.grid)]

\* The value of a call of a method the class does not have: the call
\* throws a TypeError.
TypeError == -2

\* UltimateGameLogic.getTargetBoardFromGrid(gameGrid, localWinners):
\* UltimateGameLogic has no method of that name.
getTargetBoardFromGrid(gameGrid, localWinners) == TypeError

\* GameBoard's targetBoard when it is not offline.
OnlineTargetBoard(mode, gameGrid, localWinners) ==
    IF mode = "ultimate"
    THEN getTargetBoardFromGrid(gameGrid, localWinners)
    ELSE NoBoard

\* GameBoard renders the room: none of the values it derives throws.  A
\* GameBoard that does not render runs no effect and subscribes to nothing.
GameBoardRenders(snapshot) ==
    OnlineTargetBoard(snapshot.mode, snapshot.grid,
                      IF snapshot.mode = "ultimate"
                      THEN getLocalWinners(snapshot.grid)
                      ELSE <<>>) # TypeError

\* The GameBoard of the online view is subscribed to its room's changes.
Subscribed ==
    /\ currentView = "online-game"
    /\ onlineRoom # NoRoom
    /\ GameBoardRenders(onlineRoom)

\* The feed carries the event to the client whose GameBoard is subscribed
\* to the room code.
Publish(event) ==
    IF Subscribed /\ onlineRoom.room_code = event.room_code
    THEN Append(feed, event)
    ELSE feed

Changed(eventType, row) ==
    [eventType |-> eventType, room_code |-> row.room_code, new |-> row]

Deleted(row) == [eventType |-> "DELETE", room_code |-> row.room_code]

\* createRoom: the loop generates and looks up codes, up to maxAttempts of
\* them, and the call throws when every one exists; the row is inserted
\* with the first free code, unless the store refuses it and the call
\* throws.  The call is kept with the lookups it made and the codes it
\* generated.  The table holds one room here: a room is created when there
\* is none.
createRoom(mode, gridSize, winLength, codes) ==
    /\ room = NoRoom
    /\ LET attempts == AttemptsMade(codes)
           roomData == [room_code |-> codes[Lookups(codes)],
                        mode |-> mode,
                        grid_size |-> IF mode = "classic" THEN gridSize ELSE NoSize,
                        win_length |-> IF mode = "classic" THEN winLength ELSE NoSize,
                        players |-> <<Player("player", "X", clientIds + 1)>>,
                        grid |-> ServiceCreateEmptyGrid(mode, gridSize),
                        restart_votes |-> NoVotes,
                        match_id |-> 0]
       IN  IF attempts = maxAttempts
           THEN /\ created' = [phase |-> "thrown", lookups |-> Lookups(codes),
                               generated |-> SubSeq(codes, 1, Lookups(codes)),
                               error |-> "code", room |-> NoRoom]
                /\ UNCHANGED <<room, clientIds, feed>>
           ELSE IF ~StoreAccepts(roomData)
           THEN /\ created' = [phase |-> "thrown", lookups |-> Lookups(codes),
                               generated |-> SubSeq(codes, 1, Lookups(codes)),
                               error |-> "insert", room |-> NoRoom]
                /\ clientIds' = clientIds + 1
                /\ UNCHANGED <<room, feed>>
           ELSE /\ room' = roomData
                /\ created' = [phase |-> "returned", lookups |-> Lookups(codes),
                               generated |-> SubSeq(codes, 1, Lookups(codes)),
                               error |-> "none", room |-> Deserialize(roomData)]
                /\ clientIds' = clientIds + 1
                /\ feed' = Publish(Changed("INSERT", roomData))
    /\ UNCHANGED <<calls, rulesVars, metaVars, ultimateVars, offlineVars, boardVars>>

\* A caller starts a call when its previous one has returned or thrown.
CanCall(c) == calls[c].phase # "fetched"

\* A call that returns where it throws.
ThrownAsReturned(op) == [phase |-> "returned", op |-> op]

\* if (fetchError) throw fetchError: single() finds no row with the code.
Thrown(op) == [phase |-> "thrown", op |-> op]

Fetched(c, op) == calls[c].phase = "fetched" /\ calls[c].op = op

Returned(c, op) == calls[c].phase = "returned" /\ calls[c].op = op

\* The role joinRoom gives a newcomer from the players it read.
JoinRoleFirstFree(players) ==
    IF Len(players) >= 1 /\ players[1].symbol = "X"
    THEN [symbol |-> "O", status |-> "player"]
    ELSE [symbol |-> "none", status |-> "viewer"]

\* joinRoom testing "players.length <= 2" in place of "=== 1".
JoinRoleUpToTwo(players) ==
    IF Len(players) <= 2 /\ players[1].symbol = "X"
    THEN [symbol |-> "O", status |-> "player"]
    ELSE [symbol |-> "none", status |-> "viewer"]

JoinRole(players) ==
    IF Len(players) = 1 /\ players[1].symbol = "X"
    THEN [symbol |-> "O", status |-> "player"]
    ELSE [symbol |-> "none", status |-> "viewer"]

\* joinRoom up to its update: the row is read, a client id generated and
\* the newcomer pushed onto a copy of the players read.
joinRoomFetch(c) ==
    /\ CanCall(c)
    /\ clientIds <= MaxJoins
    /\ IF room = NoRoom
       THEN /\ calls' = [calls EXCEPT ![c] = Thrown("joinRoom")]
            /\ UNCHANGED clientIds
       ELSE /\ LET role == JoinRole(room.players)
                   newPlayer == Player(role.status, role.symbol, clientIds + 1)
               IN  calls' = [calls EXCEPT ![c] =
                                [phase |-> "fetched", op |-> "joinRoom",
                                 client_id |-> clientIds + 1,
                                 read |-> room.players,
                                 players |-> Append(room.players, newPlayer)]]
            /\ clientIds' = clientIds + 1
    /\ UNCHANGED <<room, created, feed, rulesVars, metaVars, ultimateVars, offlineVars, boardVars>>

\* The players column a joinRoom update writes.
JoinUpdateRecomputed(c) ==
    LET role == JoinRole(room.players)
    IN  Append(room.players,
               Player(role.status, role.symbol, calls[c].client_id))

JoinUpdate(c) == calls[c].players

\* joinRoom's update and return: the players column is replaced and the
\* updated row given back; with no row left to update, single() gives an
\* error and the call throws.
joinRoomWrite(c) ==
    /\ Fetched(c, "joinRoom")
    /\ IF room = NoRoom
       THEN /\ calls' = [calls EXCEPT ![c] = Thrown("joinRoom")]
            /\ UNCHANGED <<room, feed>>
       ELSE /\ room' = [room EXCEPT !.players = JoinUpdate(c)]
            /\ calls' = [calls EXCEPT ![c] =
                            [phase |-> "returned", op |-> "joinRoom",
                             client_id |-> calls[c].client_id,
                             read |-> calls[c].read,
                             players |-> room'.players,
                             room |-> Deserialize(room')]]
            /\ feed' = Publish(Changed("UPDATE", room'))
    /\ UNCHANGED <<clientIds, created, rulesVars, metaVars, ultimateVars, offlineVars, boardVars>>

\* currentGrid.map(...): the cell at (row, col), if there is one, becomes
\* the symbol.
NewGridIfEmpty(currentGrid, row, col, symbol) ==
    [r \in DOMAIN currentGrid |-> [k \in DOMAIN currentGrid[r] |->
        IF r = row /\ k = col /\ currentGrid[r][k] = ""
        THEN symbol ELSE currentGrid[r][k]]]

NewGrid(currentGrid, row, col, symbol) ==
    [r \in DOMAIN currentGrid |-> [k \in DOMAIN currentGrid[r] |->
        IF r = row /\ k = col THEN symbol ELSE currentGrid[r][k]]]

\* makeMove up to its update: the row is read and its grid parsed.
makeMoveFetch(c, row, col, symbol) ==
    /\ CanCall(c)
    /\ calls' = [calls EXCEPT ![c] =
                    IF room = NoRoom
                    THEN Thrown("makeMove")
                    ELSE [phase |-> "fetched", op |-> "makeMove",
                          row |-> row, col |-> col, symbol |-> symbol,
                          currentGrid |-> parseGrid(room.grid)]]
    /\ UNCHANGED <<room, clientIds, created, feed, rulesVars, metaVars, ultimateVars, offlineVars, boardVars>>

\* The grid column a makeMove update writes.
MoveUpdateOnStored(c) ==
    <<JSONStringify(NewGrid(parseGrid(room.grid),
                            calls[c].row, calls[c].col, calls[c].symbol))>>

MoveUpdate(c) ==
    <<JSONStringify(NewGrid(calls[c].currentGrid,
                            calls[c].row, calls[c].col, calls[c].symbol))>>

\* An update of the row: with no row of the code left, the update changes
\* nothing and gives no error.
RowUpdate(newRow) ==
    IF room = NoRoom
    THEN UNCHANGED <<room, feed>>
    ELSE /\ room' = newRow
         /\ feed' = Publish(Changed("UPDATE", newRow))

\* makeMove's update: the grid column is replaced.
makeMoveWrite(c) ==
    /\ Fetched(c, "makeMove")
    /\ RowUpdate([room EXCEPT !.grid = MoveUpdate(c)])
    /\ calls' = [calls EXCEPT ![c] = [@ EXCEPT !.phase = "returned"]]
    /\ UNCHANGED <<clientIds, created, rulesVars, metaVars, ultimateVars, offlineVars, boardVars>>

\* { ...restart_votes, [symbol]: vote }
NewVotes(restart_votes, symbol, vote) ==
    [k \in DOMAIN restart_votes \cup {symbol} |->
        IF k = symbol THEN vote ELSE restart_votes[k]]

\* setRestartVote up to its update: the row is read.
setRestartVoteFetch(c, symbol, vote) ==
    /\ CanCall(c)
    /\ calls' = [calls EXCEPT ![c] =
                    IF room = NoRoom
                    THEN Thrown("setRestartVote")
                    ELSE [phase |-> "fetched", op |-> "setRestartVote",
                          symbol |-> symbol, vote |-> vote,
                          restart_votes |-> room.restart_votes]]
    /\ UNCHANGED <<room, clientIds, created, feed, rulesVars, metaVars, ultimateVars, offlineVars, boardVars>>

\* setRestartVote's update: the restart_votes column is replaced.
setRestartVoteWrite(c) ==
    /\ Fetched(c, "setRestartVote")
    /\ RowUpdate([room EXCEPT !.restart_votes =
                      NewVotes(calls[c].restart_votes, calls[c].symbol, calls[c].vote)])
    /\ calls' = [calls EXCEPT ![c] = [@ EXCEPT !.phase = "returned"]]
    /\ UNCHANGED <<clientIds, created, rulesVars, metaVars, ultimateVars, offlineVars, boardVars>>

\* room.match_id !== currentMatchId
MatchIdDiffersNever(match_id, currentMatchId) == FALSE

MatchIdDiffers(match_id, currentMatchId) == match_id # currentMatchId

\* resetGame up to its update: the row is read; when its match_id is not
\* the caller's the call returns at once.
resetGameFetch(c, currentMatchId) ==
    /\ CanCall(c)
    /\ calls' = [calls EXCEPT ![c] =
                    IF room = NoRoom
                    THEN Thrown("resetGame")
                    ELSE [phase |-> IF MatchIdDiffers(room.match_id, currentMatchId)
                                    THEN "returned" ELSE "fetched",
                          op |-> "resetGame",
                          currentMatchId |-> currentMatchId,
                          mode |-> room.mode,
                          grid_size |-> room.grid_size,
                          updated |-> FALSE]]
    /\ UNCHANGED <<room, clientIds, created, feed, rulesVars, metaVars, ultimateVars, offlineVars, boardVars>>

\* The empty grid a resetGame update writes.
EmptyGridOfDefaultSize(mode, grid_size) ==
    LET gridSize == IF mode = "ultimate" THEN 9 ELSE MinGridSize
    IN  <<JSONStringify(createEmptyGrid(gridSize))>>

EmptyGridOf(mode, grid_size) ==
    LET gridSize == IF mode = "ultimate" THEN 9 ELSE SizeOr3(grid_size)
    IN  <<JSONStringify(createEmptyGrid(gridSize))>>

\* The match_id a resetGame update writes.
NextMatchIdOfStored(c) == room.match_id + 1

NextMatchId(c) == calls[c].currentMatchId + 1

\* The row after a resetGame update.
ResetUpdateKeepVotes(c) ==
    [room EXCEPT !.grid = EmptyGridOf(calls[c].mode, calls[c].grid_size),
                 !.match_id = NextMatchId(c)]

ResetUpdate(c) ==
    [room EXCEPT !.grid = EmptyGridOf(calls[c].mode, calls[c].grid_size),
                 !.restart_votes = NoVotes,
                 !.match_id = NextMatchId(c)]

\* resetGame's update: grid, restart_votes and match_id are replaced.
resetGameWrite(c) ==
    /\ Fetched(c, "resetGame")
    /\ RowUpdate(ResetUpdate(c))
    /\ calls' = [calls EXCEPT ![c] = [@ EXCEPT !.phase = "returned", !.updated = TRUE]]
    /\ UNCHANGED <<clientIds, created, rulesVars, metaVars, ultimateVars, offlineVars, boardVars>>

\* The rooms the menu creates: a classic room of a side (no call reads its
\* win length again), or an ultimate room; the first code generated is
\* free.
FreeCodes == [i \in 1..maxAttempts |-> "A1B2C"]

CreateNext ==
    \/ \E gridSize \in MinGridSize..MaxRoomGridSize :
          createRoom("classic", gridSize, MinGridSize, FreeCodes)
    \/ createRoom("ultimate", NoSize, NoSize, FreeCodes)

\* The cells a makeMove call addresses: two cells of the grid and the cell
\* below its first column, outside it.
MoveCells(grid) ==
    {<<0, 0>>, <<0, 1>>, <<Len(grid[1]), 0>>}

\* Joins: createRoom and overlapping joinRoom calls on the room.
JoinNext ==
    \/ CreateNext
    \/ \E c \in Callers : room # NoRoom /\ joinRoomFetch(c)
    \/ \E c \in Callers : joinRoomWrite(c)

\* Play: createRoom and overlapping makeMove, setRestartVote and resetGame
\* calls on the room.  GameBoard votes with true only.
RoomNext ==
    \/ CreateNext
    \/ \E c \in Callers :
          /\ room # NoRoom
          /\ \E p \in MoveCells(room.grid) : makeMoveFetch(c, p[1], p[2], SymbolOf[c])
    \/ \E c \in Callers : makeMoveWrite(c)
    \/ \E c \in Callers : room # NoRoom /\ setRestartVoteFetch(c, SymbolOf[c], TRUE)
    \/ \E c \in Callers : setRestartVoteWrite(c)
    \/ \E c \in Callers, currentMatchId \in 0..(MaxMatchId - 1) :
          room # NoRoom /\ resetGameFetch(c, currentMatchId)
    \/ \E c \in Callers : resetGameWrite(c)

\* The row is deleted from outside the program (the table's policy allows
\* every operation); the delete is published as the updates are.
deleteRow ==
    /\ room # NoRoom
    /\ room' = NoRoom
    /\ feed' = Publish(Deleted(room))
    /\ UNCHANGED <<calls, clientIds, created, rulesVars, metaVars, ultimateVars, offlineVars, boardVars>>

\* An update of the row's settings from outside the program: the store
\* takes it unless a CHECK constraint or the trigger refuses it.
storeUpdate(mode, grid_size, win_length) ==
    /\ room # NoRoom
    /\ LET newRow == [room EXCEPT !.mode = mode,
                                  !.grid_size = grid_size,
                                  !.win_length = win_length]
       IN  IF StoreAccepts(newRow)
           THEN /\ room' = newRow
                /\ feed' = Publish(Changed("UPDATE", newRow))
           ELSE UNCHANGED <<room, feed>>
    /\ UNCHANGED <<calls, clientIds, created, rulesVars, metaVars, ultimateVars, offlineVars, boardVars>>

\* The codes a createRoom call generates: taken codes up to some attempt,
\* free codes after it.
GeneratedCodes ==
    {[i \in 1..maxAttempts |-> IF i <= taken THEN "00000" ELSE "A1B2C"] :
        taken \in 0..maxAttempts}

\* The sizes given to the store: none, and the sizes on each side of the
\* least and the greatest one it takes.
StoreSizes ==
    {NoSize, MinGridSize - 1, MinGridSize, MinGridSize + 1,
     MaxStoredGridSize, MaxStoredGridSize + 1}

Modes == {"classic", "ultimate"}

\* The store boundary: createRoom with every outcome of its loop and every
\* setting, updates of the settings, and deletes of the row.
StoreNext ==
    \/ /\ clientIds < MaxJoins
       /\ \E mode \in Modes, gridSize \in StoreSizes, winLength \in StoreSizes,
             codes \in GeneratedCodes :
             createRoom(mode, gridSize, winLength, codes)
    \/ \E mode \in Modes, grid_size \in StoreSizes, win_length \in StoreSizes :
          storeUpdate(mode, grid_size, win_length)
    \/ deleteRow

\* Calls on a room code with and without its row: the room is created and
\* deleted, and one caller makes every call, whether the row is there or
\* not.
GoneNext ==
    \/ clientIds < MaxJoins /\ CreateNext
    \/ deleteRow
    \/ joinRoomFetch("c1")
    \/ joinRoomWrite("c1")
    \/ \E p \in {<<0, 0>>, <<0, 1>>} : makeMoveFetch("c1", p[1], p[2], SymbolOf["c1"])
    \/ makeMoveWrite("c1")
    \/ setRestartVoteFetch("c1", SymbolOf["c1"], TRUE)
    \/ setRestartVoteWrite("c1")
    \/ \E currentMatchId \in 0..(MaxMatchId - 1) : resetGameFetch("c1", currentMatchId)
    \/ resetGameWrite("c1")

\* ---------------------------------------------------------- online client
\* The client that created the room: MainMenu hands the room createRoom
\* returned to Index, and GameBoard shows it, subscribes to its changes
\* and sends the moves clicked.  Its calls are those of caller c1.

\* Index.handleJoinRoom(room), called by MainMenu.handleCreateRoom with the
\* room createRoom returned; GameBoard mounts with the room as its
\* currentRoom, input not blocked, and a new subscription.
handleJoinRoom ==
    /\ currentView = "menu"
    /\ currentRoom = NoRoom
    /\ created.phase = "returned"
    /\ onlineRoom' = created.room
    /\ currentView' = "online-game"
    /\ created' = NoCreation
    /\ IF GameBoardRenders(created.room)
       THEN /\ currentRoom' = created.room
            /\ inputBlocked' = FALSE
            /\ click' = "none"
            /\ currentPlayer' = FindPlayer(created.room.players,
                                           created.room.players[1].client_id)
       ELSE UNCHANGED <<currentRoom, inputBlocked, click, currentPlayer>>
    /\ feed' = <<>>
    /\ UNCHANGED <<room, calls, clientIds, offlineGame, rulesVars, metaVars, ultimateVars>>

\* moveCount % 2 === 0 ? 'X' : 'O'
OnlineCurrentSymbol(gameGrid) ==
    IF getMoveCount(gameGrid) % 2 = 0 THEN "X" ELSE "O"

\* isGameOver of a classic room.
OnlineIsGameOver(snapshot) ==
    LET win == IF snapshot.win_length # NoSize
               THEN checkWin(snapshot.grid, snapshot.win_length)
               ELSE NoWin
    IN  win.winner # Null \/ checkDraw(snapshot.grid)

isMyTurn ==
    /\ currentPlayer.status = "player"
    /\ currentPlayer.symbol = OnlineCurrentSymbol(currentRoom.grid)
    /\ ~inputBlocked
    /\ ~OnlineIsGameOver(currentRoom)

\* handleCellClick up to its await: input is blocked and makeMove called.
\* One click is waited for at a time.
handleCellClick(row, col) ==
    /\ Subscribed
    /\ click # "awaiting"
    /\ isMyTurn
    /\ isValidMove(currentRoom.grid, row, col)
    /\ currentPlayer.symbol # "none"
    /\ inputBlocked' = TRUE
    /\ click' = "awaiting"
    /\ calls' = [calls EXCEPT !["c1"] =
                    [phase |-> "called", op |-> "makeMove",
                     row |-> row, col |-> col, symbol |-> currentPlayer.symbol]]
    /\ UNCHANGED <<room, clientIds, created, feed, onlineRoom, currentRoom,
                   currentPlayer, offlineVars, rulesVars, metaVars, ultimateVars>>

\* A request of a makeMove call fails, the select or the update: the call
\* throws and writes nothing.
requestFails(c) ==
    /\ calls[c].phase \in {"called", "fetched"}
    /\ calls[c].op = "makeMove"
    /\ calls' = [calls EXCEPT ![c] = Thrown("makeMove")]
    /\ UNCHANGED <<room, clientIds, created, feed, rulesVars, metaVars, ultimateVars, offlineVars, boardVars>>

\* handleCellClick after its await, without setInputBlocked(false) in the
\* catch.
handleCellClickSettledSilent ==
    /\ click = "awaiting"
    /\ calls["c1"].phase \in {"returned", "thrown"}
    /\ click' = IF calls["c1"].phase = "thrown" THEN "failed" ELSE "done"
    /\ UNCHANGED <<inputBlocked, onlineRoom, currentRoom, currentPlayer, roomVars,
                   offlineVars, rulesVars, metaVars, ultimateVars>>

\* handleCellClick after its await: when makeMove threw, the catch
\* re-enables input; when it returned, the handler ends.
handleCellClickSettled ==
    /\ click = "awaiting"
    /\ calls["c1"].phase \in {"returned", "thrown"}
    /\ IF calls["c1"].phase = "thrown"
       THEN inputBlocked' = FALSE /\ click' = "failed"
       ELSE UNCHANGED inputBlocked /\ click' = "done"
    /\ UNCHANGED <<onlineRoom, currentRoom, currentPlayer, roomVars,
                   offlineVars, rulesVars, metaVars, ultimateVars>>

\* The room given to the callback, without parseGrid.
CallbackRoomRaw(payload) == payload.new

\* The room subscribeToRoom gives the callback for an insert or update.
CallbackRoom(payload) == Deserialize(payload.new)

\* The feed delivers its first event: subscribeToRoom calls the callback
\* with null for a delete, and GameBoard calls onLeave (returnToMenu; the
\* channel is unsubscribed when the GameBoard goes); with the room
\* otherwise, and GameBoard sets it as currentRoom and re-enables input.
subscribeToRoomCallback ==
    /\ Subscribed
    /\ feed # <<>>
    /\ IF Head(feed).eventType = "DELETE"
       THEN /\ currentView' = "menu"
            /\ onlineRoom' = NoRoom
            /\ offlineGame' = NoGame
            /\ feed' = <<>>
            /\ UNCHANGED <<currentRoom, inputBlocked>>
       ELSE /\ currentRoom' = CallbackRoom(Head(feed))
            /\ inputBlocked' = FALSE
            /\ feed' = Tail(feed)
            /\ UNCHANGED <<currentView, onlineRoom, offlineGame>>
    /\ UNCHANGED <<click, currentPlayer, room, calls, clientIds, created,
                   rulesVars, metaVars, ultimateVars>>

\* Index shows the menu again: the GameBoard of the online view is
\* unmounted and its state discarded.
unmountGameBoard ==
    /\ currentView = "menu"
    /\ currentRoom # NoRoom
    /\ currentRoom' = NoRoom
    /\ inputBlocked' = FALSE
    /\ click' = "none"
    /\ currentPlayer' = NoPlayer
    /\ UNCHANGED <<onlineRoom, roomVars, offlineVars, rulesVars, metaVars, ultimateVars>>

\* Index.handleJoinRoom(room), called by MainMenu.handleJoinRoom with the
\* room joinRoom returned to this client (caller c1); GameBoard mounts and
\* looks its player up by the client id localStorage holds for the room
\* code: the id joinRoom stored, or none when the storage was cleared.
handleJoinRoomJoined(storedClientId) ==
    /\ currentView = "menu"
    /\ currentRoom = NoRoom
    /\ Returned("c1", "joinRoom")
    /\ onlineRoom' = calls["c1"].room
    /\ currentView' = "online-game"
    /\ calls' = [calls EXCEPT !["c1"] = Idle]
    /\ IF GameBoardRenders(calls["c1"].room)
       THEN /\ currentRoom' = calls["c1"].room
            /\ inputBlocked' = FALSE
            /\ click' = "none"
            /\ currentPlayer' = FindPlayer(calls["c1"].room.players, storedClientId)
       ELSE UNCHANGED <<currentRoom, inputBlocked, click, currentPlayer>>
    /\ feed' = <<>>
    /\ UNCHANGED <<room, clientIds, created, offlineGame, rulesVars, metaVars, ultimateVars>>

\* if (!currentPlayer?.symbol || currentPlayer.symbol === 'none') return
HasSymbol == currentPlayer.symbol \notin {"null", "none"}

\* handleRestartVote without its test of currentPlayer.symbol.
handleRestartVoteAnyone ==
    /\ Subscribed
    /\ setRestartVoteFetch("c1", currentPlayer.symbol, TRUE)

\* handleRestartVote, whatever shows its button: setRestartVote is called
\* with the player's symbol and true.
handleRestartVote ==
    /\ Subscribed
    /\ HasSymbol
    /\ setRestartVoteFetch("c1", currentPlayer.symbol, TRUE)

\* currentRoom.restart_votes.X && currentRoom.restart_votes.O
bothPlayersVotedRestart ==
    /\ {"X", "O"} \subseteq DOMAIN currentRoom.restart_votes
    /\ currentRoom.restart_votes["X"]
    /\ currentRoom.restart_votes["O"]

bothPlayersPresent ==
    Cardinality({i \in 1..Len(currentRoom.players) :
                    currentRoom.players[i].status = "player"}) = 2

\* The auto-restart effect without "currentPlayer?.status === 'player'".
autoRestartAnyStatus ==
    /\ Subscribed
    /\ bothPlayersVotedRestart
    /\ bothPlayersPresent
    /\ resetGameFetch("c1", currentRoom.match_id)

\* The auto-restart effect: resetGame is called with the snapshot's
\* match_id when both votes are seen, both players are present and the
\* client is a player.
autoRestart ==
    /\ Subscribed
    /\ bothPlayersVotedRestart
    /\ bothPlayersPresent
    /\ currentPlayer.status = "player"
    /\ resetGameFetch("c1", currentRoom.match_id)

\* The client and its room: the room is created and shown, the client
\* clicks cells, the other player's makeMove calls and deletes of the row
\* come between, requests fail, and the feed delivers.
ClientNext ==
    \/ /\ clientIds < MaxRooms
       /\ Len(feed) < MaxFeed
       /\ \/ createRoom("classic", MinGridSize, MinGridSize, FreeCodes)
          \/ createRoom("ultimate", NoSize, NoSize, FreeCodes)
    \/ handleJoinRoom
    \/ /\ Subscribed
       /\ room # NoRoom
       /\ \E p \in MoveCells(room.grid) : handleCellClick(p[1], p[2])
    \/ /\ calls["c1"].phase = "called"
       /\ makeMoveFetch("c1", calls["c1"].row, calls["c1"].col, calls["c1"].symbol)
    \/ /\ room # NoRoom
       /\ calls["c2"].phase # "fetched"
       /\ makeMoveFetch("c2", 0, 1, SymbolOf["c2"])
    \/ \E c \in Callers : Len(feed) < MaxFeed /\ makeMoveWrite(c)
    \/ requestFails("c1")
    \/ handleCellClickSettled
    \/ Len(feed) < MaxFeed /\ deleteRow
    \/ subscribeToRoomCallback
    \/ unmountGameBoard

\* A client that joins a room another client created: it joins before or
\* after a second newcomer (caller c2), as O or as viewer, and its GameBoard
\* shows the room; the other clients' moves and votes reach it as events.
\* The creator's first move is at (0,0).
ViewerNext ==
    \/ createRoom("classic", MinGridSize, MinGridSize, FreeCodes)
    \/ \E c \in Callers :
          /\ room # NoRoom
          /\ calls[c] = Idle
          /\ onlineRoom = NoRoom
          /\ joinRoomFetch(c)
    \/ \E c \in Callers : joinRoomWrite(c)
    \/ /\ Returned("c1", "joinRoom")
       /\ \E storedClientId \in {calls["c1"].client_id, NoClientId} :
             handleJoinRoomJoined(storedClientId)
    \/ /\ Subscribed
       /\ room # NoRoom
       /\ \E p \in MoveCells(room.grid) : handleCellClick(p[1], p[2])
    \/ /\ calls["c1"].phase = "called"
       /\ makeMoveFetch("c1", calls["c1"].row, calls["c1"].col, calls["c1"].symbol)
    \/ handleCellClickSettled
    \/ handleRestartVote
    \/ /\ Subscribed
       /\ currentRoom.match_id < MaxMatchId
       /\ autoRestart
    \/ /\ onlineRoom # NoRoom
       /\ calls["c2"].phase = "returned"
       /\ \/ /\ getMoveCount(parseGrid(room.grid)) = 0
             /\ makeMoveFetch("c2", 0, 0, "X")
          \/ \E symbol \in Symbols :
                /\ symbol \notin DOMAIN room.restart_votes
                /\ setRestartVoteFetch("c2", symbol, TRUE)
    \/ \E c \in Callers :
          /\ Len(feed) < MaxFeed
          /\ \/ makeMoveWrite(c)
             \/ setRestartVoteWrite(c)
             \/ resetGameWrite(c)
    \/ subscribeToRoomCallback

\* The cells clicked in a room of two players: the first row of the grid.
DuelCells == {0} \X (0..(MinGridSize - 1))

\* The GameBoard of the second player (caller c2) sends a move: its
\* snapshot is the row as stored, in which it is O's turn, the game is not
\* over and the cell is empty.
opponentCellClick(row, col) ==
    /\ room # NoRoom
    /\ Len(room.players) = 2
    /\ calls["c2"].phase = "returned"
    /\ OnlineCurrentSymbol(parseGrid(room.grid)) = "O"
    /\ ~OnlineIsGameOver(Deserialize(room))
    /\ isValidMove(parseGrid(room.grid), row, col)
    /\ makeMoveFetch("c2", row, col, "O")

\* Two players: the creator's GameBoard (X, caller c1) shows the room and
\* sends the moves clicked on its snapshot, the second client (caller c2)
\* joins as O and moves when the stored row gives it the turn, and the
\* feed delivers the row's changes to the creator's GameBoard.
DuelNext ==
    \/ clientIds = 0 /\ createRoom("classic", MinGridSize, MinGridSize, FreeCodes)
    \/ handleJoinRoom
    \/ /\ room # NoRoom
       /\ calls["c2"] = Idle
       /\ joinRoomFetch("c2")
    \/ Len(feed) < MaxFeed /\ joinRoomWrite("c2")
    \/ /\ Subscribed
       /\ \E p \in DuelCells : handleCellClick(p[1], p[2])
    \/ /\ calls["c1"].phase = "called"
       /\ makeMoveFetch("c1", calls["c1"].row, calls["c1"].col, calls["c1"].symbol)
    \/ \E p \in DuelCells : opponentCellClick(p[1], p[2])
    \/ \E c \in Callers : Len(feed) < MaxFeed /\ makeMoveWrite(c)
    \/ handleCellClickSettled
    \/ subscribeToRoomCallback

\* ------------------------------------------------------- specifications
\* Each specification runs one part of the program; the variables of the
\* other parts keep their initial values.

\* The offline driver: Index starts on the menu with no game.
Init ==
    /\ currentView = "menu"
    /\ offlineGame = NoGame
    /\ room = NoRoom
    /\ calls = NoCalls
    /\ clientIds = 0
    /\ created = NoCreation
    /\ feed = <<>>
    /\ onlineRoom = NoRoom
    /\ currentRoom = NoRoom
    /\ inputBlocked = FALSE
    /\ click = "none"
    /\ currentPlayer = NoPlayer
    /\ board = createEmptyGrid(MinGridSize)
    /\ boardWinLength = MinGridSize
    /\ classicWin = NoWin
    /\ classicDraw = FALSE
    /\ metaWinners = NoLocalWinners
    /\ metaResult = NoWin
    /\ uGrid = createEmptyGrid(9)
    /\ uPainted = 0
    /\ uLocalWinners = NoLocalWinners
    /\ uGlobal = NoWin
    /\ uDraw = FALSE
    /\ uProbe = <<>>
    /\ uTarget = NoBoard
    /\ uValid = [targetBoard \in Targets |-> FALSE]

Spec == Init /\ [][Next]_vars

\* The classic rules on a board written without legality checks: an empty
\* grid of a side and a win length the menu allows.
RulesInit ==
    /\ \E size \in MinGridSize..MaxGridSize :
          /\ board = createEmptyGrid(size)
          /\ boardWinLength \in MinGridSize..size
    /\ classicWin = NoWin
    /\ classicDraw = FALSE
    /\ metaWinners = NoLocalWinners
    /\ metaResult = NoWin
    /\ uGrid = createEmptyGrid(9)
    /\ uPainted = 0
    /\ uLocalWinners = NoLocalWinners
    /\ uGlobal = NoWin
    /\ uDraw = FALSE
    /\ uProbe = <<>>
    /\ uTarget = NoBoard
    /\ uValid = [targetBoard \in Targets |-> FALSE]
    /\ currentView = "menu"
    /\ offlineGame = NoGame
    /\ room = NoRoom
    /\ calls = NoCalls
    /\ clientIds = 0
    /\ created = NoCreation
    /\ feed = <<>>
    /\ onlineRoom = NoRoom
    /\ currentRoom = NoRoom
    /\ inputBlocked = FALSE
    /\ click = "none"
    /\ currentPlayer = NoPlayer

SpecRules == RulesInit /\ [][RulesNext]_vars

\* The global result over every vector of local winners.
MetaInit ==
    /\ metaWinners = NoLocalWinners
    /\ metaResult = NoWin
    /\ board = createEmptyGrid(MinGridSize)
    /\ boardWinLength = MinGridSize
    /\ classicWin = NoWin
    /\ classicDraw = FALSE
    /\ uGrid = createEmptyGrid(9)
    /\ uPainted = 0
    /\ uLocalWinners = NoLocalWinners
    /\ uGlobal = NoWin
    /\ uDraw = FALSE
    /\ uProbe = <<>>
    /\ uTarget = NoBoard
    /\ uValid = [targetBoard \in Targets |-> FALSE]
    /\ currentView = "menu"
    /\ offlineGame = NoGame
    /\ room = NoRoom
    /\ calls = NoCalls
    /\ clientIds = 0
    /\ created = NoCreation
    /\ feed = <<>>
    /\ onlineRoom = NoRoom
    /\ currentRoom = NoRoom
    /\ inputBlocked = FALSE
    /\ click = "none"
    /\ currentPlayer = NoPlayer

SpecMeta == MetaInit /\ [][MetaNext]_vars

\* The Ultimate rules on grids put together from sub-board positions: all
\* nine sub-boards start in the same position.
UltimateInit ==
    /\ \E position \in Positions :
          uGrid = [row \in 0..8 |-> [col \in 0..8 |-> position[row % 3][col % 3]]]
    /\ uPainted = 0
    /\ uLocalWinners = getLocalWinners(uGrid)
    /\ uGlobal = checkGlobalWinner(uLocalWinners)
    /\ uDraw = UltimateCheckDraw(uGrid, uLocalWinners)
    /\ uProbe = <<>>
    /\ uTarget = NoBoard
    /\ uValid = [targetBoard \in Targets |-> FALSE]
    /\ board = createEmptyGrid(MinGridSize)
    /\ boardWinLength = MinGridSize
    /\ classicWin = NoWin
    /\ classicDraw = FALSE
    /\ metaWinners = NoLocalWinners
    /\ metaResult = NoWin
    /\ currentView = "menu"
    /\ offlineGame = NoGame
    /\ room = NoRoom
    /\ calls = NoCalls
    /\ clientIds = 0
    /\ created = NoCreation
    /\ feed = <<>>
    /\ onlineRoom = NoRoom
    /\ currentRoom = NoRoom
    /\ inputBlocked = FALSE
    /\ click = "none"
    /\ currentPlayer = NoPlayer

SpecUltimate == UltimateInit /\ [][UltimateNext]_vars

\* The online room: no row yet, no call made.
RoomInit ==
    /\ room = NoRoom
    /\ calls = NoCalls
    /\ clientIds = 0
    /\ created = NoCreation
    /\ feed = <<>>
    /\ onlineRoom = NoRoom
    /\ currentRoom = NoRoom
    /\ inputBlocked = FALSE
    /\ click = "none"
    /\ currentPlayer = NoPlayer
    /\ board = createEmptyGrid(MinGridSize)
    /\ boardWinLength = MinGridSize
    /\ classicWin = NoWin
    /\ classicDraw = FALSE
    /\ metaWinners = NoLocalWinners
    /\ metaResult = NoWin
    /\ uGrid = createEmptyGrid(9)
    /\ uPainted = 0
    /\ uLocalWinners = NoLocalWinners
    /\ uGlobal = NoWin
    /\ uDraw = FALSE
    /\ uProbe = <<>>
    /\ uTarget = NoBoard
    /\ uValid = [targetBoard \in Targets |-> FALSE]
    /\ currentView = "menu"
    /\ offlineGame = NoGame

SpecRoom == RoomInit /\ [][RoomNext]_vars

SpecJoin == RoomInit /\ [][JoinNext]_vars

SpecStore == RoomInit /\ [][StoreNext]_vars

SpecGone == RoomInit /\ [][GoneNext]_vars

SpecClient == RoomInit /\ [][ClientNext]_vars

SpecPlay == Init /\ [][PlayNext]_vars

SpecViewer == RoomInit /\ [][ViewerNext]_vars

SpecDuel == RoomInit /\ [][DuelNext]_vars

\* ----------------------------------------------------------------- claims
\* What the claims speak of, stated without the rules engine.

Directions == {<<0, 1>>, <<1, 0>>, <<1, 1>>, <<1, -1>>}

InGrid(grid, row, col) == row \in DOMAIN grid /\ col \in DOMAIN grid

\* winLength equal non-empty cells from (row, col) in direction d, all in
\* the grid.
HasRun(grid, row, col, d, winLength) ==
    /\ grid[row][col] # ""
    /\ \A i \in 0..(winLength - 1) :
          /\ InGrid(grid, row + i * d[1], col + i * d[2])
          /\ grid[row + i * d[1]][col + i * d[2]] = grid[row][col]

\* Every run of the grid, as <<row, col, d>>.
Runs(grid, winLength) ==
    {run \in (DOMAIN grid) \X (DOMAIN grid) \X Directions :
        HasRun(grid, run[1], run[2], run[3], winLength)}

Occupied(grid) == {p \in CellsOf(grid) : grid[p[1]][p[2]] \in Symbols}

AllOccupied(grid) == Cardinality(Occupied(grid)) = GridSize(grid) * GridSize(grid)

\* The place of a direction in the scan: rows, columns, down-right, down-left.
Phase(d) ==
    CASE d = <<0, 1>> -> 0
      [] d = <<1, 0>> -> 1
      [] d = <<1, 1>> -> 2
      [] d = <<1, -1>> -> 3

\* C1: checkWin returns either {winner: null, winningLine: null} or a winner
\* X or O with a winningLine of exactly winLength cells that are in the grid,
\* consecutive along one row, column or diagonal, and all hold the winner; it
\* never reports a win for a shorter run.
C1_CheckWinSound ==
    \/ classicWin = NoWin
    \/ LET line == classicWin.winningLine
       IN  /\ classicWin.winner \in Symbols
           /\ Len(line) = boardWinLength
           /\ \E d \in Directions : \A i \in 1..Len(line) :
                 line[i] = <<line[1][1] + (i - 1) * d[1], line[1][2] + (i - 1) * d[2]>>
           /\ \A i \in 1..Len(line) :
                 /\ InGrid(board, line[i][1], line[i][2])
                 /\ board[line[i][1]][line[i][2]] = classicWin.winner

\* A board of side 4 with win length 3 on which checkWin reported the run
\* (1,1), (2,2), (3,3).
C1_Witness ==
    /\ GridSize(board) = 4
    /\ boardWinLength = 3
    /\ classicWin.winner \in Symbols
    /\ classicWin.winningLine = << <<1, 1>>, <<2, 2>>, <<3, 3>> >>

\* C2: checkWin is complete: when the grid holds winLength consecutive equal
\* non-empty cells in a row, a column, a down-right or a down-left diagonal,
\* also one that starts away from the board edge, the winner is not null.
C2_CheckWinComplete ==
    Runs(board, boardWinLength) # {} => classicWin.winner # Null

\* A board of side 4 whose only marks are the down-left run (1,3), (2,2),
\* (3,1), which starts below the top edge, reported as a win.
C2_Witness ==
    /\ GridSize(board) = 4
    /\ boardWinLength = 3
    /\ Occupied(board) = {<<1, 3>>, <<2, 2>>, <<3, 1>>}
    /\ Runs(board, boardWinLength) = {<<1, 3, <<1, -1>>>>}
    /\ classicWin.winner # Null

\* [[X,X,X],[O,O,''],['','','']]
ExampleGrid ==
    [row \in 0..2 |-> [col \in 0..2 |->
        IF row = 0 THEN "X" ELSE IF row = 1 /\ col < 2 THEN "O" ELSE ""]]

\* C3: of several runs checkWin returns the first in the order horizontal
\* runs (row-major), then vertical, then down-right, then down-left,
\* whichever symbol owns it, and lists its cells in order from its starting
\* cell; the example grid with winLength 3 gives X and [[0,0],[0,1],[0,2]].
C3_FirstInScanOrder ==
    /\ classicWin.winner # Null =>
          LET line  == classicWin.winningLine
              start == line[1]
              d     == <<line[2][1] - line[1][1], line[2][2] - line[1][2]>>
          IN  /\ d \in Directions
              /\ <<start[1], start[2], d>> \in Runs(board, boardWinLength)
              /\ classicWin.winner = board[start[1]][start[2]]
              /\ \A i \in 1..Len(line) :
                    line[i] = <<start[1] + (i - 1) * d[1], start[2] + (i - 1) * d[2]>>
              /\ \A run \in Runs(board, boardWinLength) :
                    /\ Phase(run[3]) >= Phase(d)
                    /\ (Phase(run[3]) = 0 /\ Phase(d) = 0) =>
                          \/ run[1] > start[1]
                          \/ run[1] = start[1] /\ run[2] >= start[2]
    /\ (board = ExampleGrid /\ boardWinLength = 3) =>
          classicWin = [winner |-> "X",
                        winningLine |-> << <<0, 0>>, <<0, 1>>, <<0, 2>> >>]

\* A grid with a run of X and a run of O in which the run found first is
\* O's.
C3_Witness ==
    /\ \E r1 \in Runs(board, boardWinLength), r2 \in Runs(board, boardWinLength) :
          board[r1[1]][r1[2]] = "X" /\ board[r2[1]][r2[2]] = "O"
    /\ classicWin.winner = "O"

\* C9 as claimed: checkDraw(grid) is true iff every cell is occupied and
\* checkWin finds no winning run in the grid.
C9_Original ==
    checkDraw(board) <=> (AllOccupied(board) /\ classicWin.winner = Null)

\* C9 as amended: checkDraw(grid) is true iff every cell is occupied, whether
\* or not the grid holds a winning run; the draw flag its callers compute
\* (no winner and checkDraw) is true iff every cell is occupied and checkWin
\* finds no winning run.
C9_CheckDrawIsFullGrid ==
    /\ checkDraw(board) <=> AllOccupied(board)
    /\ classicDraw <=> (AllOccupied(board) /\ classicWin.winner = Null)

\* A completely filled grid that holds a winning run: checkDraw is true, the
\* callers' draw flag is false.
C9_Witness ==
    /\ AllOccupied(board)
    /\ classicWin.winner # Null
    /\ checkDraw(board)
    /\ ~classicDraw

\* The cells of sub-board boardIndex.
SubBoardCells(boardIndex) ==
    {p \in (0..8) \X (0..8) : (p[1] \div 3) * 3 + (p[2] \div 3) = boardIndex}

\* Sub-board boardIndex of the grid has no empty cell.
SubBoardFull(grid, boardIndex) ==
    \A p \in SubBoardCells(boardIndex) : grid[p[1]][p[2]] # ""

\* C4: getTargetBoard(lastMoveRow, lastMoveCol, grid, localWinners) returns
\* null whenever the sub-board with index (lastMoveRow mod 3) * 3 +
\* (lastMoveCol mod 3) has a local winner or no empty cell, and that index
\* otherwise; after a move at (0,0) the result is 0 unless sub-board 0 is won
\* or full.
C4_TargetBoard ==
    uProbe # <<>> =>
        LET index == (uProbe[1] % 3) * 3 + (uProbe[2] % 3)
            wonOrFull == uLocalWinners[index] # Null \/ SubBoardFull(uGrid, index)
        IN  /\ uTarget = (IF wonOrFull THEN NoBoard ELSE index)
            /\ uProbe = <<0, 0>> =>
                  uTarget = (IF uLocalWinners[0] # Null \/ SubBoardFull(uGrid, 0)
                             THEN NoBoard ELSE 0)

\* A last move that addresses a sub-board that is full with no winner: the
\* target is null.
C4_Witness ==
    /\ uProbe # <<>>
    /\ LET index == (uProbe[1] % 3) * 3 + (uProbe[2] % 3)
       IN  /\ uLocalWinners[index] = Null
           /\ SubBoardFull(uGrid, index)
           /\ \E other \in 0..8 : ~SubBoardFull(uGrid, other)
    /\ uTarget = NoBoard

\* C5: isValidMove(grid, row, col, targetBoard) is true iff cell (row, col)
\* is in the grid and empty and either targetBoard is null or
\* floor(row/3)*3 + floor(col/3) equals targetBoard, for every targetBoard in
\* 0..8, 0 included.
C5_UltimateIsValidMove ==
    uProbe # <<>> =>
        LET row == uProbe[1]
            col == uProbe[2]
        IN  \A targetBoard \in Targets :
              /\ uValid[targetBoard] <=>
                    /\ uGrid[row][col] = ""
                    /\ \/ targetBoard = NoBoard
                       \/ (row \div 3) * 3 + (col \div 3) = targetBoard
              /\ \A p \in {<<-1, col>>, <<9, col>>, <<row, -1>>, <<row, 9>>} :
                    ~UltimateIsValidMove(uGrid, p[1], p[2], targetBoard)

\* An empty cell outside sub-board 0, probed when the target board is 0: it
\* is a valid free move and not a valid move under target board 0.
C5_Witness ==
    /\ uProbe # <<>>
    /\ uTarget = 0
    /\ uGrid[uProbe[1]][uProbe[2]] = ""
    /\ (uProbe[1] \div 3) * 3 + (uProbe[2] \div 3) # 0
    /\ uValid[NoBoard]
    /\ ~uValid[0]

\* The triples of sub-board indices that form a row, a column or a diagonal
\* of the 3 x 3 meta-grid.
MetaLines ==
    {{0, 1, 2}, {3, 4, 5}, {6, 7, 8}, {0, 3, 6}, {1, 4, 7}, {2, 5, 8},
     {0, 4, 8}, {2, 4, 6}}

\* C7: checkGlobalWinner returns a winner iff three sub-boards forming a row,
\* column or diagonal of the meta-grid are won by the same symbol; every
\* entry of the winningLine holds the index 0..8 of one of those three
\* sub-boards (as the one-element array [index]), never a [row, col] pair.
C7_GlobalWinner ==
    /\ metaResult.winner # Null <=>
          \E line \in MetaLines : \E symbol \in Symbols :
              \A index \in line : metaWinners[index] = symbol
    /\ metaResult.winner = Null => metaResult.winningLine = <<>>
    /\ metaResult.winner # Null =>
          LET line == metaResult.winningLine
          IN  /\ metaResult.winner \in Symbols
              /\ Len(line) = 3
              /\ \A i \in 1..3 : Len(line[i]) = 1 /\ line[i][1] \in 0..8
              /\ {line[i][1] : i \in 1..3} \in MetaLines
              /\ \A i \in 1..3 : metaWinners[line[i][1]] = metaResult.winner

\* Sub-boards 2, 4 and 6 won by O, reported as the line [2], [4], [6].
C7_Witness ==
    /\ metaResult.winner = "O"
    /\ metaResult.winningLine = << <<2>>, <<4>>, <<6>> >>

\* C8: Ultimate checkDraw(grid, localWinners) is false whenever
\* checkGlobalWinner(localWinners) has a winner, and otherwise true iff all
\* 81 cells are non-empty; it is false for a grid in which every sub-board
\* is won or full but a cell of a won sub-board is empty.
C8_UltimateCheckDraw ==
    /\ uGlobal.winner # Null => ~uDraw
    /\ uGlobal.winner = Null => (uDraw <=> AllOccupied(uGrid))
    /\ ( /\ \A index \in 0..8 :
               uLocalWinners[index] # Null \/ SubBoardFull(uGrid, index)
         /\ \E index \in 0..8 :
               uLocalWinners[index] # Null /\ ~SubBoardFull(uGrid, index) )
          => ~uDraw

\* No global winner, every sub-board won or full, an empty cell left in a
\* won sub-board: not a draw.
C8_Witness ==
    /\ uGlobal.winner = Null
    /\ \A index \in 0..8 : uLocalWinners[index] # Null \/ SubBoardFull(uGrid, index)
    /\ \E index \in 0..8 : uLocalWinners[index] # Null /\ ~SubBoardFull(uGrid, index)
    /\ ~uDraw

\* The rows, columns and diagonals of a 3 x 3 board, as sets of local cells.
LocalLines ==
    {{<<k, 0>>, <<k, 1>>, <<k, 2>>} : k \in 0..2}
        \cup {{<<0, k>>, <<1, k>>, <<2, k>>} : k \in 0..2}
        \cup {{<<0, 0>>, <<1, 1>>, <<2, 2>>}, {<<0, 2>>, <<1, 1>>, <<2, 0>>}}

\* Sub-board boardIndex of the grid holds three equal marks in a line.
SubBoardHasLine(grid, boardIndex) ==
    \E line \in LocalLines : \E symbol \in Symbols : \A q \in line :
        grid[(boardIndex \div 3) * 3 + q[1]][(boardIndex % 3) * 3 + q[2]] = symbol

\* An offline Ultimate game in which the next mover has a free move.
FreeMove ==
    /\ currentView = "offline-game"
    /\ offlineGame.mode = "ultimate"
    /\ ~offlineGame.isGameOver
    /\ offlineGame.targetBoard = NoBoard

\* C6 as claimed: when the target board is null, move validation accepts a
\* move only into a sub-board that is neither won nor full: an empty cell
\* inside a sub-board that has a local winner is rejected.
C6_Original ==
    FreeMove =>
        \A p \in (0..8) \X (0..8) :
            ( /\ offlineGame.grid[p[1]][p[2]] = ""
              /\ offlineGame.localWinners[(p[1] \div 3) * 3 + (p[2] \div 3)] # Null )
            => ~OfflineIsValid(offlineGame, p[1], p[2])

\* C6 as amended: when the target board is null, move validation accepts a
\* move iff its cell is in the grid and empty, also when the cell lies in a
\* sub-board that has a local winner.
C6_FreeMoveAnyEmptyCell ==
    FreeMove =>
        \A p \in (-1..9) \X (-1..9) :
            OfflineIsValid(offlineGame, p[1], p[2]) <=>
                /\ InGrid(offlineGame.grid, p[1], p[2])
                /\ offlineGame.grid[p[1]][p[2]] = ""

\* An accepted move whose sub-board had a local winner before the move was
\* made (no target board ever names such a sub-board, so it was a free
\* move).
C6_Witness ==
    /\ currentView = "offline-game"
    /\ offlineGame.mode = "ultimate"
    /\ offlineGame.lastMove # <<>>
    /\ LET row == offlineGame.lastMove[1]
           col == offlineGame.lastMove[2]
           before == [offlineGame.grid EXCEPT ![row] = [@ EXCEPT ![col] = ""]]
       IN  SubBoardHasLine(before, (row \div 3) * 3 + (col \div 3))

\* C10: in every state of the offline driver, getCurrentPlayer(grid) (X when
\* the number of occupied cells is even, O when odd) equals currentSymbol, and
\* moveCount equals the number of occupied cells.
C10_TurnFollowsParity ==
    currentView = "offline-game" =>
        LET n == Cardinality(Occupied(offlineGame.grid))
        IN  /\ getCurrentPlayer(offlineGame.grid) = (IF n % 2 = 0 THEN "X" ELSE "O")
            /\ getCurrentPlayer(offlineGame.grid) = offlineGame.currentSymbol
            /\ offlineGame.moveCount = n

\* An Ultimate game after three accepted moves: O is to move.
C10_Witness ==
    /\ currentView = "offline-game"
    /\ offlineGame.mode = "ultimate"
    /\ offlineGame.moveCount = 3
    /\ Cardinality(Occupied(offlineGame.grid)) = 3
    /\ offlineGame.currentSymbol = "O"

\* A step in which caller c starts a call of an operation: its select.
Starts(c, op) ==
    /\ calls[c].phase # "fetched"
    /\ calls'[c] # calls[c]
    /\ calls'[c].op = op

\* A step in which caller c's call of an operation makes its update.
Updates(c, op) ==
    /\ calls[c].phase = "fetched"
    /\ calls[c].op = op
    /\ calls'[c].phase = "returned"

\* C11: the stored match_id of a room is a non-negative integer that never
\* decreases: in every step of every interleaving of the calls, match_id
\* after the step is >= match_id before it.
C11_MatchIdNeverDecreases ==
    [][(room # NoRoom /\ room' # NoRoom) =>
          (room.match_id >= 0 /\ room'.match_id >= room.match_id)]_vars

\* C12: resetGame(roomCode, currentMatchId) is a silent no-op when the
\* match_id it reads differs from currentMatchId: the call returns with no
\* update pending and the row is as it was; so a resetGame(roomCode, m) call
\* made after match_id has advanced to m + 1 leaves it at m + 1.
C12_StaleResetIsNoOp ==
    [][\A c \in Callers :
          (Starts(c, "resetGame") /\ room.match_id # calls'[c].currentMatchId) =>
              /\ room' = room
              /\ calls'[c].phase = "returned"
              /\ ~calls'[c].updated]_vars

\* One resetGame(code, 0) call has advanced match_id to 1 and another
\* resetGame(code, 0) call has returned without an update.
C12_Witness ==
    \E c \in Callers, d \in Callers :
        /\ Returned(c, "resetGame") /\ calls[c].currentMatchId = 0 /\ calls[c].updated
        /\ Returned(d, "resetGame") /\ calls[d].currentMatchId = 0 /\ ~calls[d].updated
        /\ room.match_id = 1

\* Two resetGame calls with the same currentMatchId m have both made their
\* update, and no call has written since the later one.  Each read
\* match_id = m; for m = 0 both did so before either wrote, since no update
\* writes match_id 0.
BothReset(c, d, m) ==
    /\ c # d
    /\ Returned(c, "resetGame") /\ calls[c].currentMatchId = m /\ calls[c].updated
    /\ Returned(d, "resetGame") /\ calls[d].currentMatchId = m /\ calls[d].updated

\* C13 as claimed: when two resetGame calls carrying the same currentMatchId
\* m both read match_id = m before either writes, the stored match_id after
\* both updates is m + 2.
C13_Original ==
    \A c \in Callers, d \in Callers, m \in 0..(MaxMatchId - 1) :
        BothReset(c, d, m) => room.match_id = m + 2

\* C13 as amended: after both updates the stored match_id is m + 1, and the
\* grid and the votes are those of a reset.
C13_RacingResetsWriteSameId ==
    \A c \in Callers, d \in Callers, m \in 0..(MaxMatchId - 1) :
        BothReset(c, d, m) =>
            /\ room.match_id = m + 1
            /\ room.restart_votes = NoVotes
            /\ \A row \in 1..Len(room.grid[1]) :
                  \A col \in 1..Len(room.grid[1][row]) : room.grid[1][row][col] = ""

\* Two resetGame(code, 0) calls have both read match_id 0 and both made
\* their update.
C13_Witness ==
    /\ BothReset("c1", "c2", 0)
    /\ room.match_id = 1

\* The stored text of an all-empty square grid of a side.
EmptyStored(side) == <<[i \in 1..side |-> [j \in 1..side |-> ""]]>>

\* C14: the update of a resetGame call that read a match_id equal to its
\* currentMatchId sets the grid to an all-empty square grid of the side it had
\* (9 for ultimate, grid_size for classic), restart_votes to the empty map and
\* match_id to currentMatchId + 1, and leaves room_code, mode, grid_size,
\* win_length and players unchanged.
C14_ResetClearsGridAndVotes ==
    [][\A c \in Callers :
          Updates(c, "resetGame") =>
              LET side == Len(room.grid[1])
              IN  /\ side = (IF room.mode = "ultimate" THEN 9 ELSE room.grid_size)
                  /\ room'.grid = EmptyStored(side)
                  /\ room'.restart_votes = NoVotes
                  /\ room'.match_id = calls[c].currentMatchId + 1
                  /\ room'.room_code = room.room_code
                  /\ room'.mode = room.mode
                  /\ room'.grid_size = room.grid_size
                  /\ room'.win_length = room.win_length
                  /\ room'.players = room.players]_vars

\* A resetGame(code, 0) call has made its update after the other caller
\* wrote a mark into the grid: the grid is empty, the votes are empty and
\* match_id is 1.
C14_Witness ==
    \E c \in Callers, d \in Callers :
        /\ Returned(c, "resetGame") /\ calls[c].currentMatchId = 0 /\ calls[c].updated
        /\ Returned(d, "makeMove") /\ calls[d].row = 0
        /\ room.grid = EmptyStored(Len(room.grid[1]))
        /\ room.restart_votes = NoVotes
        /\ room.match_id = 1

\* C15: makeMove makes no legality check: its update writes the grid it
\* fetched with exactly cell (row, col) replaced by symbol and every other
\* cell as fetched, whatever the cell held and whoever's turn it is, and
\* changes no other column; when (row, col) is outside the grid the written
\* grid equals the fetched grid.
C15_MoveWritesOneCell ==
    [][\A c \in Callers :
          /\ Starts(c, "makeMove") =>
                LET fetched == calls'[c].currentGrid
                    side == Len(room.grid[1])
                IN  /\ DOMAIN fetched = 0..(side - 1)
                    /\ \A r \in 0..(side - 1) :
                          /\ DOMAIN fetched[r] = 0..(side - 1)
                          /\ \A k \in 0..(side - 1) :
                                fetched[r][k] = room.grid[1][r + 1][k + 1]
          /\ Updates(c, "makeMove") =>
                LET fetched == calls[c].currentGrid
                    side == Cardinality(DOMAIN fetched)
                    written == room'.grid[1]
                IN  /\ Len(room'.grid) = 1
                    /\ Len(written) = side
                    /\ \A r \in 0..(side - 1) :
                          /\ Len(written[r + 1]) = side
                          /\ \A k \in 0..(side - 1) :
                                written[r + 1][k + 1] =
                                    (IF r = calls[c].row /\ k = calls[c].col
                                     THEN calls[c].symbol ELSE fetched[r][k])
                    /\ (calls[c].row \notin 0..(side - 1) \/ calls[c].col \notin 0..(side - 1))
                          => written = JSONStringify(fetched)
                    /\ room'.players = room.players
                    /\ room'.restart_votes = room.restart_votes
                    /\ room'.match_id = room.match_id]_vars

\* A makeMove call has written its symbol over the other symbol's mark.
C15_Witness ==
    \E c \in Callers :
        /\ Returned(c, "makeMove")
        /\ calls[c].row = 0
        /\ calls[c].currentGrid[0][calls[c].col] \notin {"", calls[c].symbol}
        /\ room.grid[1][1][calls[c].col + 1] = calls[c].symbol

\* The stored grid holds, cell for cell, the grid with the symbol at
\* (row, col).
StoredIsWith(stored, grid, row, col, symbol) ==
    /\ Len(stored) = 1
    /\ Len(stored[1]) = Cardinality(DOMAIN grid)
    /\ \A r \in DOMAIN grid :
          /\ Len(stored[1][r + 1]) = Cardinality(DOMAIN grid[r])
          /\ \A k \in DOMAIN grid[r] :
                stored[1][r + 1][k + 1] =
                    (IF r = row /\ k = col THEN symbol ELSE grid[r][k])

\* Two makeMove calls on different cells of the grid that fetched the same
\* grid.
SameFetch(c, d) ==
    /\ c # d
    /\ calls[c].op = "makeMove" /\ calls[d].op = "makeMove"
    /\ calls[c].currentGrid = calls[d].currentGrid
    /\ <<calls[c].row, calls[c].col>> # <<calls[d].row, calls[d].col>>
    /\ calls[c].row = 0 /\ calls[d].row = 0

\* C16: moves are last-write-wins: when two makeMove calls on different cells
\* both fetched the same grid before either wrote, and the first has written,
\* the second's update stores the fetched grid with the second's mark only:
\* the first writer's cell holds what was fetched, and its mark is lost.
C16_LastWriteWins ==
    [][\A c \in Callers, d \in Callers :
          ( /\ SameFetch(c, d)
            /\ calls[c].phase = "returned" /\ calls[d].phase = "fetched"
            /\ calls'[d].phase = "returned"
            /\ StoredIsWith(room.grid, calls[c].currentGrid,
                            calls[c].row, calls[c].col, calls[c].symbol) )
          => /\ StoredIsWith(room'.grid, calls[d].currentGrid,
                             calls[d].row, calls[d].col, calls[d].symbol)
             /\ room'.grid[1][1][calls[c].col + 1] = calls[d].currentGrid[0][calls[c].col]]_vars

\* Both calls fetched a grid in which their two cells were empty and no reset
\* has been made; both have written, and the stored grid holds the mark of
\* one of them only.
C16_Witness ==
    \E c \in Callers, d \in Callers :
        /\ SameFetch(c, d)
        /\ calls[c].phase = "returned" /\ calls[d].phase = "returned"
        /\ calls[c].currentGrid[0][calls[c].col] = ""
        /\ calls[c].currentGrid[0][calls[d].col] = ""
        /\ room.match_id = 0
        /\ room.grid[1][1][calls[c].col + 1] = ""
        /\ room.grid[1][1][calls[d].col + 1] = calls[d].symbol

\* The entry at a position of a players list has the role of that position:
\* X player first, O player second, viewers after.
RoleAt(players, i) ==
    IF i = 1 THEN players[i].symbol = "X" /\ players[i].status = "player"
    ELSE IF i = 2 THEN players[i].symbol = "O" /\ players[i].status = "player"
    ELSE players[i].symbol = "none" /\ players[i].status = "viewer"

\* C17: createRoom records the creator as X / player; joinRoom gives O /
\* player exactly when the list it read has one player and that player is X,
\* and none / viewer otherwise; a joinRoom whose update follows its read with
\* no other update in between appends exactly one entry and leaves the entries
\* present as they were, so in calls made one after another the first joiner
\* is O / player and every later joiner none / viewer.
C17_JoinRoles ==
    [][/\ (room = NoRoom /\ room' # NoRoom) =>
              /\ Len(room'.players) = 1
              /\ RoleAt(room'.players, 1)
       /\ \A c \in Callers :
              /\ joinRoomFetch(c) =>
                    LET new == calls'[c].players[Len(calls'[c].players)]
                        oneX == Len(room.players) = 1 /\ room.players[1].symbol = "X"
                    IN  /\ new.client_id = calls'[c].client_id
                        /\ oneX => (new.symbol = "O" /\ new.status = "player")
                        /\ ~oneX => (new.symbol = "none" /\ new.status = "viewer")
              /\ (joinRoomWrite(c) /\ calls[c].read = room.players) =>
                    /\ Len(room'.players) = Len(room.players) + 1
                    /\ \A i \in 1..Len(room.players) : room'.players[i] = room.players[i]
                    /\ room'.players[Len(room'.players)].client_id = calls[c].client_id
                    /\ \A i \in 1..Len(room'.players) : RoleAt(room'.players, i)]_vars

\* The creator and two joiners whose calls did not overlap: three entries,
\* one for each client id generated, X player, O player and a viewer.
C17_Witness ==
    /\ room # NoRoom
    /\ clientIds = 3
    /\ Len(room.players) = 3
    /\ \A i \in 1..3 : RoleAt(room.players, i) /\ room.players[i].client_id = i
    /\ \A c \in Callers : Returned(c, "joinRoom")

\* Two joinRoom calls that both read a list holding the X creator only.
BothReadCreatorOnly(c, d) ==
    /\ c # d
    /\ Returned(c, "joinRoom") /\ Returned(d, "joinRoom")
    /\ Len(calls[c].read) = 1 /\ calls[c].read[1].symbol = "X"
    /\ Len(calls[d].read) = 1 /\ calls[d].read[1].symbol = "X"

\* The room a joinRoom call returned lists its caller as O / player.
HoldsO(c) ==
    \E i \in 1..Len(calls[c].players) :
        /\ calls[c].players[i].client_id = calls[c].client_id
        /\ calls[c].players[i].symbol = "O"
        /\ calls[c].players[i].status = "player"

\* C18: when two joinRoom calls against a room holding only the X creator
\* both read the list before either writes, both return, each to its caller a
\* room in which that caller is O / player: two distinct clients hold O.
C18_BothJoinersHoldO ==
    \A c \in Callers, d \in Callers :
        BothReadCreatorOnly(c, d) =>
            /\ HoldsO(c) /\ HoldsO(d)
            /\ calls[c].client_id # calls[d].client_id

\* Both calls read the creator only, both have returned, and the stored list
\* is the one the later of them wrote.
C18_Witness ==
    /\ BothReadCreatorOnly("c1", "c2")
    /\ HoldsO("c1") /\ HoldsO("c2")
    /\ Len(room.players) = 2
    /\ room.players = calls["c2"].players

\* C19: setRestartVote merges one vote into the map without losing the
\* other: after setRestartVote(code, X, true) and setRestartVote(code, O,
\* true) have both returned with no reset made (match_id is still 0, which no
\* reset writes), restart_votes has both X and O true, whatever the
\* interleaving of the two calls' reads and writes.
C19_BothVotesKept ==
    \A c \in Callers, d \in Callers :
        ( /\ Returned(c, "setRestartVote") /\ calls[c].symbol = "X" /\ calls[c].vote
          /\ Returned(d, "setRestartVote") /\ calls[d].symbol = "O" /\ calls[d].vote
          /\ room.match_id = 0 )
        => /\ DOMAIN room.restart_votes = {"X", "O"}
           /\ room.restart_votes["X"]
           /\ room.restart_votes["O"]

\* C20: the stored grid of a room is always a square matrix whose side is 9
\* for an ultimate room and grid_size for a classic room, under every
\* interleaving of the calls, also after a reset.
C20_GridKeepsItsSide ==
    room # NoRoom =>
        LET side == IF room.mode = "ultimate" THEN 9 ELSE room.grid_size
        IN  /\ Len(room.grid) = 1
            /\ Len(room.grid[1]) = side
            /\ \A row \in 1..side : Len(room.grid[1][row]) = side
            /\ \A c \in Callers :
                  (calls[c].op = "makeMove") =>
                      /\ DOMAIN calls[c].currentGrid = 0..(side - 1)
                      /\ \A row \in 0..(side - 1) :
                            DOMAIN calls[c].currentGrid[row] = 0..(side - 1)

\* A classic room of side 4 after a reset and a move made on the new grid.
C20_Witness ==
    /\ room # NoRoom
    /\ room.mode = "classic"
    /\ room.grid_size = 4
    /\ room.match_id = 1
    /\ room.grid[1][1][1] # ""
    /\ Len(room.grid[1]) = 4
    /\ \E c \in Callers : Returned(c, "resetGame") /\ calls[c].updated

\* A step of the offline driver in which a move is accepted.
OfflineMoveAccepted ==
    /\ currentView = "offline-game"
    /\ currentView' = "offline-game"
    /\ offlineGame'.moveCount = offlineGame.moveCount + 1

\* C23: in the offline driver an accepted move at (row, col) gives a state
\* whose grid is the previous grid with exactly that cell set to the previous
\* currentSymbol, whose currentSymbol is the other symbol, whose moveCount is
\* one higher, whose winner and winningLine are checkWin of the new grid
\* (checkGlobalWinner of the new local winners in Ultimate), whose winner is
\* 'draw' only when there is no winner and the draw check holds, and whose
\* isGameOver is true iff there is a winner or a draw.
C23_AcceptedMove ==
    [][OfflineMoveAccepted =>
          LET before  == offlineGame
              after   == offlineGame'
              classic == before.mode = "classic"
              locals  == getLocalWinners(after.grid)
              result  == IF classic THEN checkWin(after.grid, before.winLength)
                         ELSE checkGlobalWinner(locals)
              draw    == IF classic THEN checkDraw(after.grid)
                         ELSE UltimateCheckDraw(after.grid, locals)
          IN  /\ Len(after.lastMove) = 2
              /\ <<after.lastMove[1], after.lastMove[2]>> \in CellsOf(before.grid)
              /\ DOMAIN after.grid = DOMAIN before.grid
              /\ \A p \in CellsOf(before.grid) :
                    after.grid[p[1]][p[2]] =
                        (IF p = <<after.lastMove[1], after.lastMove[2]>>
                         THEN before.currentSymbol ELSE before.grid[p[1]][p[2]])
              /\ after.currentSymbol \in Symbols \ {before.currentSymbol}
              /\ after.moveCount = before.moveCount + 1
              /\ after.winningLine = result.winningLine
              /\ result.winner # Null => after.winner = result.winner
              /\ after.winner = "draw" <=> (result.winner = Null /\ draw)
              /\ after.winner = Null <=> (result.winner = Null /\ ~draw)
              /\ after.isGameOver <=> (result.winner # Null \/ after.winner = "draw")
              /\ ~classic => after.localWinners = locals]_vars

\* A classic game ended in a draw by an accepted move.
C23_Witness ==
    /\ currentView = "offline-game"
    /\ offlineGame.mode = "classic"
    /\ offlineGame.moveCount = MinGridSize * MinGridSize
    /\ offlineGame.winner = "draw"
    /\ offlineGame.isGameOver

\* C24: in the offline driver a move attempt leaves the whole offline state
\* unchanged when the game is over or when the cell is occupied or out of
\* bounds: a step that changes the state by a move starts in a state that is
\* not over and plays a cell of the grid that was empty; so once isGameOver
\* is true the grid does not change until a restart.
C24_RejectedMoveChangesNothing ==
    [][(/\ currentView = "offline-game"
        /\ currentView' = "offline-game"
        /\ offlineGame' # offlineGame
        /\ ~handleOfflineRestart)
       => /\ ~offlineGame.isGameOver
          /\ OfflineMoveAccepted
          /\ <<offlineGame'.lastMove[1], offlineGame'.lastMove[2]>>
                \in CellsOf(offlineGame.grid)
          /\ offlineGame.grid[offlineGame'.lastMove[1]][offlineGame'.lastMove[2]] = ""
          /\ \A p \in CellsOf(offlineGame.grid) :
                offlineGame.grid[p[1]][p[2]] # "" =>
                    offlineGame'.grid[p[1]][p[2]] = offlineGame.grid[p[1]][p[2]]]_vars

\* A game that is over with empty cells left and move attempts still to be
\* made on it.
C24_Witness ==
    /\ currentView = "offline-game"
    /\ offlineGame.isGameOver
    /\ offlineGame.winner \in Symbols
    /\ ~checkDraw(offlineGame.grid)
    /\ offlineGame.moveCount < MoveLimit(offlineGame)

\* C25: an offline restart from any reachable state gives an all-empty grid
\* of the same side as before (9 for ultimate, the chosen gridSize for
\* classic) with currentSymbol X, moveCount 0, winner and winningLine null,
\* isGameOver false, lastMove null, targetBoard null and all local winners
\* null, while mode, gridSize and winLength are unchanged.
C25_RestartClearsDerivedState ==
    [][handleOfflineRestart =>
          LET before == offlineGame
              after  == offlineGame'
              side   == IF before.mode = "ultimate" THEN 9 ELSE before.gridSize
          IN  /\ DOMAIN after.grid = 0..(side - 1)
              /\ DOMAIN after.grid = DOMAIN before.grid
              /\ \A row \in 0..(side - 1) :
                    /\ DOMAIN after.grid[row] = 0..(side - 1)
                    /\ \A col \in 0..(side - 1) : after.grid[row][col] = ""
              /\ after.currentSymbol = "X"
              /\ after.moveCount = 0
              /\ after.winner = Null
              /\ after.winningLine = <<>>
              /\ ~after.isGameOver
              /\ after.lastMove = <<>>
              /\ after.targetBoard = NoBoard
              /\ \A index \in 0..8 : after.localWinners[index] = Null
              /\ after.mode = before.mode
              /\ after.gridSize = before.gridSize
              /\ after.winLength = before.winLength
              /\ currentView' = currentView]_vars

\* An Ultimate game with a last move, a target board and a local winner: a
\* state a restart has everything to clear in.
C25_Witness ==
    /\ currentView = "offline-game"
    /\ offlineGame.mode = "ultimate"
    /\ offlineGame.lastMove # <<>>
    /\ offlineGame.targetBoard # NoBoard
    /\ \E index \in 0..8 : offlineGame.localWinners[index] # Null

\* A square matrix over {X, O, empty}.
ValidGrid(grid) ==
    \E side \in 1..9 :
        /\ DOMAIN grid = 0..(side - 1)
        /\ \A row \in 0..(side - 1) :
              /\ DOMAIN grid[row] = 0..(side - 1)
              /\ \A col \in 0..(side - 1) : grid[row][col] \in Symbols \cup {""}

\* Serializing the grid to the storage form and parsing it back gives the
\* grid, cell for cell.
RoundTrips(grid) ==
    LET back == parseGrid(<<JSONStringify(grid)>>)
    IN  /\ DOMAIN back = DOMAIN grid
        /\ \A row \in DOMAIN grid :
              /\ DOMAIN back[row] = DOMAIN grid[row]
              /\ \A col \in DOMAIN grid[row] : back[row][col] = grid[row][col]

\* C27: for every valid grid, serializing it to the storage form (a
\* one-element array holding the JSON text of the matrix) and parsing it back
\* with parseGrid gives a matrix equal to the original cell for cell: the
\* stored grid, written by createRoom, makeMove or resetGame, is the storage
\* form of the valid grid it parses to, and the grid a makeMove call fetched
\* and the grid it is about to write both come back unchanged.
C27_GridRoundTrip ==
    /\ room # NoRoom =>
          LET grid == parseGrid(room.grid)
          IN  /\ ValidGrid(grid)
              /\ room.grid = <<JSONStringify(grid)>>
              /\ RoundTrips(grid)
    /\ \A c \in Callers :
          Fetched(c, "makeMove") =>
              LET written == NewGrid(calls[c].currentGrid, calls[c].row,
                                     calls[c].col, calls[c].symbol)
              IN  /\ ValidGrid(calls[c].currentGrid) /\ RoundTrips(calls[c].currentGrid)
                  /\ ValidGrid(written) /\ RoundTrips(written)

\* A stored 9 x 9 grid, written by makeMove, that is not symmetric, and a
\* call about to write another mark on what it parsed from it.
C27_Witness ==
    /\ room # NoRoom
    /\ room.mode = "ultimate"
    /\ room.grid[1][1][2] # ""
    /\ room.grid[1][2][1] = ""
    /\ \E c \in Callers :
          /\ Fetched(c, "makeMove")
          /\ calls[c].currentGrid[0][1] # ""
          /\ calls[c].row = 0 /\ calls[c].col = 0

\* C26: createRoom makes at most 10 code-generation attempts: when the store
\* reports each of the 10 generated codes as existing, createRoom fails with
\* an error after exactly 10 lookups and inserts no row; when some attempt
\* k <= 10 finds a free code, createRoom inserts a row with that code and
\* does not fail for lack of a code.
C26_TenCodeAttempts ==
    created.phase # "none" =>
        LET taken == {i \in 1..Len(created.generated) :
                         created.generated[i] \in OtherRooms}
        IN  /\ created.lookups = Len(created.generated)
            /\ created.lookups \in 1..10
            /\ \A i \in 1..(created.lookups - 1) : i \in taken
            /\ created.error = "code" <=> (created.lookups = 10 /\ 10 \in taken)
            /\ created.error = "code" =>
                  created.phase = "thrown" /\ created.room = NoRoom /\ room = NoRoom
            /\ created.error # "code" =>
                  /\ created.lookups \notin taken
                  /\ created.error = "none" =>
                        /\ created.phase = "returned"
                        /\ created.room.room_code = created.generated[created.lookups]

\* A createRoom call that found its tenth code free and inserted the row.
C26_Witness ==
    /\ created.phase = "returned"
    /\ created.lookups = 10
    /\ room # NoRoom
    /\ room.room_code = created.generated[10]

\* C28: every row the store accepts with mode classic satisfies
\* 3 <= win_length <= grid_size <= 10 with both values non-null: an insert or
\* update of a classic row with a null grid_size, a null win_length or
\* win_length > grid_size is rejected and leaves the stored row unchanged; a
\* room created by createRoom in ultimate mode has grid_size and win_length
\* both null.
C28_ClassicSettingsValid ==
    /\ (room # NoRoom /\ room.mode = "classic") =>
          /\ room.grid_size # NoSize /\ room.win_length # NoSize
          /\ 3 <= room.win_length
          /\ room.win_length <= room.grid_size
          /\ room.grid_size <= 10
    /\ (created.phase = "returned" /\ created.room.mode = "classic") =>
          /\ created.room.grid_size # NoSize /\ created.room.win_length # NoSize
          /\ 3 <= created.room.win_length
          /\ created.room.win_length <= created.room.grid_size
          /\ created.room.grid_size <= 10
    /\ (created.phase = "returned" /\ created.room.mode = "ultimate") =>
          created.room.grid_size = NoSize /\ created.room.win_length = NoSize
    /\ (created.phase = "thrown" /\ created.error = "insert") => room = NoRoom

\* An insert the store has refused: no row is stored.
C28_Witness ==
    /\ created.phase = "thrown"
    /\ created.error = "insert"
    /\ created.lookups = 1
    /\ room = NoRoom

\* C30: joinRoom, makeMove, setRestartVote and resetGame called with a room
\* code that has no row in the store fail with an error and perform no write
\* to the store.
C30_NoRowCallsThrow ==
    [][\A c \in Callers :
          \A op \in {"joinRoom", "makeMove", "setRestartVote", "resetGame"} :
              (Starts(c, op) /\ room = NoRoom) =>
                  /\ calls'[c].phase = "thrown"
                  /\ room' = NoRoom
                  /\ feed' = feed
                  /\ clientIds' = clientIds]_vars

\* A call made after the room was created and its row deleted has thrown.
C30_Witness ==
    /\ room = NoRoom
    /\ created.phase = "returned"
    /\ calls["c1"].phase = "thrown"
    /\ calls["c1"].op = "resetGame"

\* A step in which the feed delivers its first event to the callback.
Delivery ==
    /\ Subscribed
    /\ feed # <<>>
    /\ feed' = Tail(feed) \/ currentView' = "menu"

\* The snapshot holds the row column for column, its grid as a matrix.
SnapshotOfRow(snapshot, row) ==
    LET side == Len(row.grid[1])
    IN  /\ snapshot.room_code = row.room_code
        /\ snapshot.mode = row.mode
        /\ snapshot.grid_size = row.grid_size
        /\ snapshot.win_length = row.win_length
        /\ snapshot.players = row.players
        /\ snapshot.restart_votes = row.restart_votes
        /\ snapshot.match_id = row.match_id
        /\ DOMAIN snapshot.grid = 0..(side - 1)
        /\ \A r \in 0..(side - 1) :
              /\ DOMAIN snapshot.grid[r] = 0..(side - 1)
              /\ \A k \in 0..(side - 1) :
                    snapshot.grid[r][k] = row.grid[1][r + 1][k + 1]

\* C21: the subscription callback receives, for every insert or update event
\* of the room's row and in the feed's delivery order, the deserialized row of
\* that event (grid parsed to a matrix), and null for a delete event; on null
\* the GameBoard client calls onLeave and does not replace its current room,
\* and on a non-null delivery it replaces its current room with the delivered
\* snapshot without merging it with earlier state.
C21_CallbackTakesEachEvent ==
    [][/\ (Subscribed /\ room' # room) =>
             /\ Len(feed') = Len(feed) + 1
             /\ \A i \in 1..Len(feed) : feed'[i] = feed[i]
             /\ LET event == feed'[Len(feed')]
                IN  IF room' = NoRoom
                    THEN event.eventType = "DELETE"
                    ELSE /\ event.eventType = (IF room = NoRoom THEN "INSERT" ELSE "UPDATE")
                         /\ event.new = room'
       /\ Delivery =>
             LET payload == Head(feed)
             IN  IF payload.eventType = "DELETE"
                 THEN /\ currentView' = "menu"
                      /\ onlineRoom' = NoRoom
                      /\ currentRoom' = currentRoom
                 ELSE /\ payload.eventType \in {"INSERT", "UPDATE"}
                      /\ feed' = Tail(feed)
                      /\ SnapshotOfRow(currentRoom', payload.new)
                      /\ currentView' = currentView]_vars

\* The client holds a delivered snapshot in which the other player's mark
\* stands, and the next event of the feed is the row's delete.
C21_Witness ==
    /\ Subscribed
    /\ currentRoom # onlineRoom
    /\ currentRoom.grid[0][1] = "O"
    /\ feed # <<>>
    /\ Head(feed).eventType = "DELETE"

\* An insert event on its way to a subscribed client.
InsertInFeed ==
    /\ Subscribed
    /\ \E i \in 1..Len(feed) : feed[i].eventType = "INSERT"

\* C29: when a makeMove call issued by handleCellClick fails (fetch or update
\* error), the client's current room snapshot is unchanged and input is
\* re-enabled (inputBlocked is false again), so the same player can attempt
\* the move again; input blocked by a move is never left blocked after that
\* move's failure.
C29_FailedMoveUnblocksInput ==
    [][/\ (click = "awaiting" /\ click' = "failed") =>
             /\ calls["c1"].phase = "thrown"
             /\ currentRoom' = currentRoom
             /\ room' = room
             /\ ~inputBlocked'
       /\ click' = "failed" => ~inputBlocked'
       /\ (click = "awaiting" /\ click' = "done") => calls["c1"].phase = "returned"]_vars

\* A move of the client has failed with the row in the store, input is
\* enabled and it is still the client's turn on the cell.
C29_Witness ==
    /\ Subscribed
    /\ click = "failed"
    /\ room # NoRoom
    /\ ~inputBlocked
    /\ isMyTurn
    /\ isValidMove(currentRoom.grid, 0, 0)

\* C22: an online Ultimate client and the offline driver derive the same game
\* state from the same sequence of accepted moves: on the grid the offline
\* driver holds after a move, the online GameBoard's targetBoard equals
\* getTargetBoard applied to the last move played (the value the offline
\* driver stores), and its winner and draw flags equal the offline driver's.
C22_OnlineDerivesAsOffline ==
    (/\ currentView = "offline-game"
     /\ offlineGame.mode = "ultimate"
     /\ offlineGame.moveCount > 0)
    => LET gameGrid       == offlineGame.grid
           localWinners   == getLocalWinners(gameGrid)
           ultimateGlobal == checkGlobalWinner(localWinners)
           ultimateDraw   == ultimateGlobal.winner = Null
                                /\ UltimateCheckDraw(gameGrid, localWinners)
           targetBoard    == OnlineTargetBoard("ultimate", gameGrid, localWinners)
       IN  /\ targetBoard = getTargetBoard(offlineGame.lastMove[1],
                                           offlineGame.lastMove[2],
                                           gameGrid, localWinners)
           /\ targetBoard = offlineGame.targetBoard
           /\ ultimateGlobal.winner # Null => offlineGame.winner = ultimateGlobal.winner
           /\ ultimateDraw <=> offlineGame.winner = "draw"
           /\ (ultimateGlobal.winner # Null \/ ultimateDraw) <=> offlineGame.isGameOver

C32_LocalWinnerStays ==
    [][(OfflineMoveAccepted /\ offlineGame.mode = "ultimate")
       => \A index \in 0..8 :
             getLocalWinners(offlineGame.grid)[index] # Null
             => getLocalWinners(offlineGame'.grid)[index]
                   = getLocalWinners(offlineGame.grid)[index]]_vars

\* The offline game's isGameOver on a grid: a global winner or a draw.
UltimateOver == uGlobal.winner # Null \/ uDraw

\* The cells handleOfflineMove accepts on the grid when the stored target
\* board is targetBoard.
LegalCells(targetBoard) ==
    {p \in (0..8) \X (0..8) :
        OfflineIsValid([mode |-> "ultimate", grid |-> uGrid,
                        targetBoard |-> targetBoard], p[1], p[2])}

\* C33: an offline Ultimate game cannot get stuck: in every state that is not
\* game over, whatever the last move was, at least one cell is a legal move
\* under the target board stored for it; and a grid with all 81 cells
\* occupied is game over (a global winner or a draw), so a play in which
\* moves keep being made ends after at most 81 accepted moves.
C33_NeverStuck ==
    /\ (uProbe # <<>> /\ ~UltimateOver) => LegalCells(uTarget) # {}
    /\ AllOccupied(uGrid) => UltimateOver
    /\ ~UltimateOver => Cardinality(Occupied(uGrid)) < 81

\* The last move addresses a sub-board that is full with no winner, the
\* game is not over, and the free move has legal cells, none of them in
\* that sub-board.
C33_Witness ==
    /\ uProbe # <<>>
    /\ ~UltimateOver
    /\ uTarget = NoBoard
    /\ LET index == (uProbe[1] % 3) * 3 + (uProbe[2] % 3)
       IN  /\ uLocalWinners[index] = Null
           /\ SubBoardFull(uGrid, index)
           /\ LegalCells(uTarget) # {}
           /\ LegalCells(uTarget) \cap SubBoardCells(index) = {}

\* All 81 cells occupied with no global winner: the game is over, a draw.
FullGridIsDraw ==
    /\ AllOccupied(uGrid)
    /\ uGlobal.winner = Null
    /\ uDraw

\* C35: under every interleaving of joinRoom calls after createRoom, the
\* stored player list has the creator as its first entry with symbol X and
\* status player, has at most one entry with symbol O (its second entry,
\* status player), and has symbol none with status viewer in every entry
\* after the second; the store never holds two entries with symbol O or two
\* with symbol X.
C35_StoredPlayersWellFormed ==
    room # NoRoom =>
        LET players == room.players
            With(symbol) == {i \in 1..Len(players) : players[i].symbol = symbol}
        IN  /\ Len(players) >= 1
            /\ players[1] = Player("player", "X", 1)
            /\ With("X") = {1}
            /\ With("O") \subseteq {2}
            /\ Len(players) >= 2 => players[2].symbol = "O" /\ players[2].status = "player"
            /\ \A i \in 3..Len(players) :
                  players[i].symbol = "none" /\ players[i].status = "viewer"

\* Two joinRoom calls that both read the creator alone have both returned
\* and a third has joined as viewer: the stored list holds the creator, one
\* O and one viewer.
C35_Witness ==
    /\ room # NoRoom
    /\ Len(room.players) = 3
    /\ \E c \in Callers :
          /\ Returned(c, "joinRoom")
          /\ Len(calls[c].read) = 1
          /\ \A i \in 1..Len(room.players) :
                room.players[i].client_id # calls[c].client_id

\* C36: after a reset has advanced a room to match m+1, a mark written by
\* makeMove in match m+1 is never erased while match_id stays m+1: the update
\* of a resetGame(roomCode, m) call, also of one that read match_id = m
\* before the first reset's write and writes afterwards, leaves a grid that
\* holds moves of match m+1 as it is.
C36_NewMatchMarksKept ==
    [][\A c \in Callers :
          (/\ Updates(c, "resetGame")
           /\ room # NoRoom
           /\ room' # NoRoom
           /\ room.match_id = calls[c].currentMatchId + 1
           /\ room'.match_id = room.match_id
           /\ getMoveCount(parseGrid(room.grid)) > 0)
          => room'.grid = room.grid]_vars

\* The calls that write to grid, restart_votes or match_id.
WritingOps == {"makeMove", "setRestartVote", "resetGame"}

\* The client of the GameBoard is a player with a mark.
IsMarkedPlayer ==
    currentPlayer.status = "player" /\ currentPlayer.symbol \in Symbols

\* C34: a client that is a viewer (status viewer, symbol none) or whose
\* stored client id matches no entry of the player list never issues
\* makeMove, setRestartVote or resetGame through the GameBoard, in any room
\* state: only a client with status player and symbol X or O starts such a
\* call or makes its write to grid, restart_votes or match_id.
C34_OnlyPlayersWrite ==
    [][\A op \in WritingOps :
          (Starts("c1", op) \/ Updates("c1", op)) => IsMarkedPlayer]_vars

\* The GameBoard of a viewer holds a snapshot with both restart votes and
\* both players present, on an empty grid, and no call of its own is under
\* way.
C34_Witness ==
    /\ Subscribed
    /\ currentPlayer.status = "viewer"
    /\ currentPlayer.symbol = "none"
    /\ bothPlayersVotedRestart
    /\ bothPlayersPresent
    /\ getMoveCount(currentRoom.grid) = 0
    /\ calls["c1"] = Idle

\* The GameBoard of a client whose stored id matches no entry, with a
\* snapshot in which both votes are seen.
UnknownClientSeesVotes ==
    /\ Subscribed
    /\ currentPlayer = NoPlayer
    /\ bothPlayersVotedRestart
    /\ bothPlayersPresent

\* The GameBoard of the client that joined as O has made a move.
JoinedPlayerMoved ==
    /\ Subscribed
    /\ currentPlayer.symbol = "O"
    /\ Returned("c1", "makeMove")

\* The number of cells of a grid that hold a symbol.
MarksOf(grid, symbol) ==
    Cardinality({p \in CellsOf(grid) : grid[p[1]][p[2]] = symbol})

\* C37: with exactly two player clients (X and O) that write only through
\* the GameBoard handlers, the stored grid in every reachable state has
\* either equally many X and O marks or exactly one more X than O, under
\* every interleaving of the clients' reads, writes and notification
\* deliveries.
C37_MarksAlternate ==
    room # NoRoom =>
        LET grid == parseGrid(room.grid)
        IN  \/ MarksOf(grid, "X") = MarksOf(grid, "O")
            \/ MarksOf(grid, "X") = MarksOf(grid, "O") + 1

====
